---- MODULE Spec2Model ----
(***************************************************************************)
(* Order intake and webhook reconciliation of the Telegram shop backend.   *)
(*                                                                         *)
(* SpecWebhook : POST /api/webhooks/mosklad, one event per step, with the  *)
(*               60-second demand_created marker and the clock.            *)
(* SpecOrder   : the draft order of a user driven by the bot handlers and  *)
(*               by POST /api/draft-order, handlers interleaved at their   *)
(*               ERP and store calls.                                      *)
(* SpecDraft   : the same handlers one at a time, with every request body. *)
(* SpecRegister: contact sharing, /start and the weekly debt reminder next *)
(*               to one order handler.                                     *)
(* SpecPdf     : buildDemandPdfData applied to bounded orders and          *)
(*               shipments.                                                *)
(* SpecWorker  : the reminder worker and the report scheduler, started,   *)
(*               stopped and ticking.                                      *)
(* SpecMoney   : a catalog price sent to the ERP and back in minor units.  *)
(* SpecAccess  : POST /api/demands/:demandId/pdf for every caller.         *)
(* SpecReset   : the two resets of a user whose counterparty was deleted.  *)
(* SpecAdmin   : the notification settings panel of the admins.            *)
(* SpecBroadcast: notifyAdminsByType while admins save their settings.     *)
(* SpecAddress : one draft from the storefront's request to the address,   *)
(*               the confirmation or the cancellation.                     *)
(* SpecPrice   : the same while the catalog price of the product changes.  *)
(* SpecRun     : the runs of the reminder worker, item by item.            *)
(* SpecReport  : the runs of the report scheduler over a weekend.          *)
(* SpecPrompt  : blocked and new users following the prompts of the bot,   *)
(*               with the fairness of users who keep doing so.             *)
(***************************************************************************)
EXTENDS Integers, Sequences, FiniteSets, TLC

VARIABLES
    users,        \* prisma.user rows: telegram user -> registration fields
    cacheTtl,     \* cache entries demand_created:<counterparty>: seconds left
    batchSet,     \* demandCreatedCounterparties of the request being handled
    whN,          \* number of events of the webhook request being handled
    whPos,        \* number of events of that request the loop has taken up
    whAborted,    \* the handler ended by an exception
    cur,          \* the event handled last in that request
    out,          \* the messages the handler sent while handling cur
    curThrow,     \* what threw while handling cur: none, fetch or send
    adminPrefs,   \* adminSettings of the admin: notification types switched on
    sinceCreate,  \* history: seconds since the last demand CREATE of a customer
                  \*          reached the CREATE branch
    erpCp,        \* ERP counterparties: id -> phone, "free" or "deleted"
    drafts,       \* prisma.draftOrder rows with their items: user -> draft
    nextDraftId,  \* id the next created draft row gets
    lastOrder,    \* the ERP order createCustomerOrder created in this step
    ordersOf,     \* history: ERP orders created per entry point and draft id,
                  \*          2: two or more
    slots,        \* the handlers in flight: position and local variables
    ended,        \* the handler that ended in this step: what it found and answered
    seenDeleted,  \* history: the users whose counterparty a resolution found
                  \*          deleted and who have not shared their contact since
    pdfIn,        \* what buildDemandPdfData is called with and what it fetches
    pdfOut,       \* what buildDemandPdfData returned
    lastUpsert,   \* history: the item list of the last draftOrder.upsert on the
                  \*          draft row of a user
    reminders,    \* prisma.reminder rows with sentAt null: user -> day offset
                  \*          -> number of rows
    timerOn,      \* reminderInterval / reportInterval is set, per worker
    isProcessing, \* the isProcessing flag of the worker's module
    inFlight,     \* the scheduled runs of the worker that have not returned
    lastDailyDate,\* reports.ts lastDailyDate is today's date
    lastTick,     \* the worker whose timer fired in this step and the outcome
    minorIn,      \* the price of a draft item, in minor units
    minorOut,     \* the price in the positions createCustomerOrder posts
    pdfReply,     \* the POST /api/demands/:demandId/pdf request answered in
                  \*          this step: caller, shipment, status, document
    resetOut,     \* the user table after the webhook DELETE event and after
                  \*          the bot's handling, both from the table in users
    adminSettings,\* prisma.adminSettings: the row of each user, if saved
    panel,        \* the admin panel action answered in this step
    bcast,        \* notifyAdminsByType in flight: type, position in the
                  \*          admin list, admins a message was delivered to
    now,          \* the clock, in days; day 0 is a Sunday
    lastDebtReminderAt, \* prisma.user.lastDebtReminderAt of each user
    orderReminders,\* prisma.reminder rows: id, user, dueAt, sentAt
    nextReminderId,\* the id the next created reminder row gets
    runPc,        \* the reminder run in flight: pass, items left, items
                  \*          selected, handled and failed in the pass
    debtLog,      \* history: the days a debt reminder was sent to each user
    dispatched,   \* history: how often each order reminder was sent
    lastDailyStr, \* reports.ts lastDailyDate: the date of the last daily report
    lastWeeklyDate,\* reports.ts lastWeeklyDate
    rptPc,        \* the report run in flight: the date and the report at hand
    reportLog,    \* history: the dates each report was sent, in order
    catalog       \* the sale price of each product in the ERP, times 100

whVars == <<cacheTtl, batchSet, whN, whPos, whAborted, cur, out, curThrow,
            adminPrefs, sinceCreate>>

ordVars == <<erpCp, drafts, nextDraftId, lastOrder, ordersOf, slots, ended,
             seenDeleted, lastUpsert, reminders>>

pdfVars == <<pdfIn, pdfOut>>

wkVars == <<timerOn, isProcessing, inFlight, lastDailyDate, lastTick>>

\* the variables outside the webhook and the order handlers
moneyVars == <<minorIn, minorOut>>

admVars == <<adminSettings, panel, bcast>>

runVars == <<now, lastDebtReminderAt, orderReminders, nextReminderId, runPc,
             debtLog, dispatched>>

rptVars == <<lastDailyStr, lastWeeklyDate, rptPc, reportLog>>

lateVars == <<runVars, rptVars, catalog>>

sideVars == <<pdfVars, wkVars, moneyVars, pdfReply, resetOut, admVars,
              lateVars>>

vars == <<users, whVars, ordVars, sideVars>>

NONE == "none"

Customers == {"c1", "c2"}
Users == {"u1", "u2"}

(* bounds of the model *)
MaxBatch == 2
TickSeconds == 30

(***************************************************************************)
(* cache.js: key -> value with a time to live, kept as the seconds left.   *)
(***************************************************************************)
CacheSet(cache, key, ttl) == [cache EXCEPT ![key] = ttl]

CacheGet(cache, key) == cache[key] > 0

CacheAdvance(cache, d) ==
    [k \in DOMAIN cache |-> IF cache[k] > d THEN cache[k] - d ELSE 0]

(* cache.set(`demand_created:${counterpartyId}`, true, 60) *)
DemandCreatedTtl == 60

SinceCap == DemandCreatedTtl

Never == -1

(***************************************************************************)
(* Webhook events.  The payload carries type, action and updatedFields;    *)
(* agent and applicable are what the ERP returns when the handler fetches  *)
(* the entity, fetch tells whether that fetch throws.                      *)
(***************************************************************************)
FieldSets ==
    { {}, {"applicable"}, {"demands"}, {"shipments"}, {"payments"},
      {"payedsum"}, {"state"} }

Fetched ==
    [agent : Customers, applicable : BOOLEAN, fetch : {"ok"}]
      \cup { [agent |-> NONE, applicable |-> TRUE, fetch |-> "ok"],
             [agent |-> NONE, applicable |-> TRUE, fetch |-> "throws"] }

Event(type, action, fields, f) ==
    [type |-> type, action |-> action, fields |-> fields,
     agent |-> f.agent, applicable |-> f.applicable, fetch |-> f.fetch]

NotFetched == [agent |-> NONE, applicable |-> TRUE, fetch |-> "ok"]

DocEvents(type) ==
    { Event(type, "CREATE", {}, f) : f \in Fetched }
      \cup { Event(type, "UPDATE", fs, f) : fs \in FieldSets, f \in Fetched }
      \cup { Event(type, "DELETE", {}, NotFetched) }

Events ==
    DocEvents("demand") \cup DocEvents("customerorder")
      \cup { Event("paymentin", "CREATE", {}, f) :
                f \in {g \in Fetched : g.applicable} }
      \cup { Event("paymentin", "UPDATE", {}, NotFetched) }
      \cup { Event("counterparty", "DELETE", {},
                   [agent |-> c, applicable |-> TRUE, fetch |-> "ok"]) :
                c \in Customers }

NoEvent == Event(NONE, NONE, {}, NotFetched)

(* prisma.user.findFirst({ where: { moskladCounterpartyId } }) *)
LinkedUsers(us, c) == {u \in Users : us[u].moskladCounterpartyId = c}

FindUser(us, c) ==
    IF LinkedUsers(us, c) = {} THEN NONE ELSE CHOOSE u \in LinkedUsers(us, c) : TRUE

(* the full reset of a user's registration fields *)
ResetUser(us, u) ==
    [us EXCEPT ![u] = [@ EXCEPT !.moskladCounterpartyId = NONE,
                                !.phoneNumber = NONE,
                                !.defaultAddress = NONE,
                                !.pendingState = NONE]]

Note(to, kind) == [to |-> to, kind |-> kind]

(* notifyAdminsByType: the admin gets the message when the type is on *)
AdminNotes(prefs, type, kind) ==
    IF type \in prefs THEN <<Note("admin", kind)>> ELSE <<>>

(***************************************************************************)
(* The outcome of one pass of the event loop.  sends is the sequence of    *)
(* messages the pass would send; failAt is the index of the send that      *)
(* throws (0: none does).                                                  *)
(***************************************************************************)
Skip == [sends |-> <<>>, mark |-> {}, reset |-> NONE, fetchThrows |-> FALSE]

Threw == [sends |-> <<>>, mark |-> {}, reset |-> NONE, fetchThrows |-> TRUE]

Sends(s, m) == [sends |-> s, mark |-> m, reset |-> NONE, fetchThrows |-> FALSE]

CounterpartyDeleted(ev, us) ==
    IF FindUser(us, ev.agent) = NONE THEN Skip
    ELSE [sends |-> <<Note(FindUser(us, ev.agent), "counterpartyDeleted")>>,
          mark |-> {}, reset |-> FindUser(us, ev.agent), fetchThrows |-> FALSE]

DemandEvent(ev, us, prefs) ==
    IF ev.action = "DELETE" THEN Skip
    ELSE IF "applicable" \in ev.fields THEN Skip
    ELSE IF "payments" \in ev.fields \/ "payedsum" \in ev.fields THEN Skip
    ELSE IF ev.fetch = "throws" THEN Threw
    ELSE IF ev.agent = NONE THEN Skip
    ELSE IF ev.applicable = FALSE THEN Skip
    ELSE IF FindUser(us, ev.agent) = NONE THEN Skip
    ELSE IF ev.action = "CREATE"
         THEN Sends(<<Note(FindUser(us, ev.agent), "demandCreate")>>
                        \o AdminNotes(prefs, "newOrder", "demandCreate"),
                    {ev.agent})
         ELSE Sends(<<Note(FindUser(us, ev.agent), "demandUpdate")>>, {})

PaymentEvent(ev, us, prefs) ==
    IF ev.action # "CREATE" THEN Skip
    ELSE IF ev.fetch = "throws" THEN Threw
    ELSE IF ev.agent = NONE THEN Skip
    ELSE IF FindUser(us, ev.agent) = NONE THEN Skip
    ELSE Sends(<<Note(FindUser(us, ev.agent), "payment")>>
                   \o AdminNotes(prefs, "payment", "payment"), {})

(* mutants of the guard: one conjunct forgotten *)
OrderUpdateGuard_NoDemands(ev, inBatch, cache) ==
    /\ ev.agent \notin inBatch
    /\ ~CacheGet(cache, ev.agent)
    /\ "shipments" \notin ev.fields
    /\ "payments" \notin ev.fields
    /\ "payedsum" \notin ev.fields

OrderUpdateGuard_NoCache(ev, inBatch, cache) ==
    /\ ev.agent \notin inBatch
    /\ "demands" \notin ev.fields
    /\ "shipments" \notin ev.fields
    /\ "payments" \notin ev.fields
    /\ "payedsum" \notin ev.fields

OrderUpdateGuard_NoBatch(ev, inBatch, cache) ==
    /\ ~CacheGet(cache, ev.agent)
    /\ "demands" \notin ev.fields
    /\ "shipments" \notin ev.fields
    /\ "payments" \notin ev.fields
    /\ "payedsum" \notin ev.fields

(* the guard of the order UPDATE branch *)
OrderUpdateGuard(ev, inBatch, cache) ==
    /\ ev.agent \notin inBatch
    /\ ~CacheGet(cache, ev.agent)
    /\ "demands" \notin ev.fields
    /\ "shipments" \notin ev.fields
    /\ "payments" \notin ev.fields
    /\ "payedsum" \notin ev.fields

OrderEvent(ev, us, prefs, inBatch, cache) ==
    IF ev.action = "DELETE" THEN Skip
    ELSE IF ev.fetch = "throws" THEN Threw
    ELSE IF ev.applicable = FALSE THEN Skip
    ELSE IF ev.agent = NONE THEN Skip
    ELSE IF FindUser(us, ev.agent) = NONE THEN Skip
    ELSE IF ev.action = "CREATE"
         THEN Sends(<<Note(FindUser(us, ev.agent), "orderCreate")>>
                        \o AdminNotes(prefs, "newOrder", "orderCreate"), {})
    ELSE IF OrderUpdateGuard(ev, inBatch, cache)
         THEN Sends(<<Note(FindUser(us, ev.agent), "orderUpdate")>>
                        \o AdminNotes(prefs, "orderUpdate", "orderUpdate"), {})
    ELSE Skip

LoopBody(ev, us, prefs, inBatch, cache) ==
    IF ev.type = "counterparty" /\ ev.action = "DELETE"
        THEN CounterpartyDeleted(ev, us)
    ELSE IF ev.type = "demand" THEN DemandEvent(ev, us, prefs)
    ELSE IF ev.type = "paymentin" THEN PaymentEvent(ev, us, prefs)
    ELSE OrderEvent(ev, us, prefs, inBatch, cache)

(* the pass reached the CREATE branch of a shipment (demand) event *)
ReachedDemandCreate(r) ==
    r.sends # <<>> /\ r.sends[1].kind = "demandCreate"

Min(a, b) == IF a < b THEN a ELSE b

Prefix(s, n) == SubSeq(s, 1, Min(n, Len(s)))

(***************************************************************************)
(* buildDemandPdfData.  Amounts are kept in hundredths: the x / 100 of the *)
(* fetchers is represented by x, so Math.round(d * 100) / 100 is d.        *)
(***************************************************************************)
MaxOrderLines == 2
MaxShipLines == 2

\* null and undefined of a numeric field
Null == -1
Undefined == -2

IsNumber(x) == x >= 0

Max(a, b) == IF a > b THEN a ELSE b

\* a ?? b
Coalesce(a, b) == IF IsNumber(a) THEN a ELSE b

\* names are sequences of characters
Lower(ch) ==
    IF ch = "A" THEN "a" ELSE IF ch = "P" THEN "p" ELSE IF ch = "R" THEN "r"
    ELSE IF ch = "X" THEN "x" ELSE ch

RECURSIVE TrimStart(_)
TrimStart(n) ==
    IF n # <<>> /\ Head(n) = " " THEN TrimStart(Tail(n)) ELSE n

RECURSIVE TrimEnd(_)
TrimEnd(n) ==
    IF n # <<>> /\ n[Len(n)] = " " THEN TrimEnd(SubSeq(n, 1, Len(n) - 1)) ELSE n

RECURSIVE Collapse(_)
\* replace(/\s+/g, " ")
Collapse(n) ==
    IF Len(n) < 2 THEN n
    ELSE IF n[1] = " " /\ n[2] = " " THEN Collapse(Tail(n))
    ELSE <<n[1]>> \o Collapse(Tail(n))

\* name.trim().replace(/\s+/g, " ").toLowerCase()
NormalizeName(name) ==
    LET n == Collapse(TrimEnd(TrimStart(name)))
    IN  [i \in 1..Len(n) |-> Lower(n[i])]

PdfLine(id, name, q, price) ==
    [assortmentId |-> id, name |-> name, quantity |-> q, price |-> price]

SameId(id, pos) == id # NONE /\ pos.assortmentId = id

SameName(key, pos) == key # <<>> /\ NormalizeName(pos.name) = key

\* the Map of quantities summed per product id, read at one id
QtyById(ps, id) ==
    LET f[i \in 0..Len(ps)] ==
            IF i = 0 THEN 0
            ELSE f[i - 1] + (IF SameId(id, ps[i]) THEN ps[i].quantity ELSE 0)
    IN  f[Len(ps)]

\* the Map of quantities summed per normalized name, read at one name
QtyByName(ps, key) ==
    LET f[i \in 0..Len(ps)] ==
            IF i = 0 THEN 0
            ELSE f[i - 1] + (IF SameName(key, ps[i]) THEN ps[i].quantity ELSE 0)
    IN  f[Len(ps)]

HasId(ps, id) == \E i \in 1..Len(ps) : SameId(id, ps[i])

HasName(ps, key) == \E i \in 1..Len(ps) : SameName(key, ps[i])

\* the Map of prices per product id, the last numeric price set winning
OrderPriceById(ps, id) ==
    LET f[i \in 0..Len(ps)] ==
            IF i = 0 THEN Undefined
            ELSE IF SameId(id, ps[i]) /\ IsNumber(ps[i].price) THEN ps[i].price
            ELSE f[i - 1]
    IN  f[Len(ps)]

\* the Map of prices per normalized name
OrderPriceByName(ps, key) ==
    LET f[i \in 0..Len(ps)] ==
            IF i = 0 THEN Undefined
            ELSE IF SameName(key, ps[i]) /\ IsNumber(ps[i].price) THEN ps[i].price
            ELSE f[i - 1]
    IN  f[Len(ps)]

RECURSIVE Flatten(_)
\* the lines of the shipments of the order, one list after the other
Flatten(lists) ==
    IF lists = <<>> THEN <<>> ELSE Head(lists) \o Flatten(Tail(lists))

\* the unit price a shipped line is valued at
ShippedUnitPrice(orderPositions, pos) ==
    LET key == NormalizeName(pos.name)
    IN  IF pos.assortmentId # NONE
        THEN Coalesce(OrderPriceById(orderPositions, pos.assortmentId),
                      Coalesce(OrderPriceByName(orderPositions, key), pos.price))
        ELSE Coalesce(OrderPriceByName(orderPositions, key), pos.price)

ShippedTotal(orderPositions, shipped) ==
    LET f[i \in 0..Len(shipped)] ==
            IF i = 0 THEN 0
            ELSE LET unitPrice == ShippedUnitPrice(orderPositions, shipped[i])
                 IN  f[i - 1] + (IF IsNumber(unitPrice)
                                 THEN unitPrice * shipped[i].quantity ELSE 0)
    IN  f[Len(shipped)]

ComputedTotal(orderPositions) ==
    LET f[i \in 0..Len(orderPositions)] ==
            IF i = 0 THEN 0
            ELSE f[i - 1] + (IF IsNumber(orderPositions[i].price)
                             THEN orderPositions[i].price * orderPositions[i].quantity
                             ELSE 0)
    IN  f[Len(orderPositions)]

OrderTotal(sum, orderPositions) ==
    IF IsNumber(sum) /\ sum > 0 THEN sum
    ELSE IF ComputedTotal(orderPositions) > 0 THEN ComputedTotal(orderPositions)
    ELSE Null

\* the difference without the floor at zero
LeftToPay_Signed(orderTotal, shippedTotal) ==
    IF orderTotal # Null THEN orderTotal - shippedTotal ELSE Null

LeftToPay(orderTotal, shippedTotal) ==
    IF orderTotal # Null THEN Max(0, orderTotal - shippedTotal) ELSE Null

PdfPosition(id, name, q, price, remainingQty, remainingSum) ==
    [assortmentId |-> id, name |-> name, quantity |-> q, price |-> price,
     remainingQty |-> remainingQty, remainingSum |-> remainingSum]

\* orderPositions.map(...): the receipt line of an order line
OrderLineResult(pos, orderPositions, shipped, demandPositions) ==
    LET key == NormalizeName(pos.name)
        hasIdMatch == pos.assortmentId # NONE /\ HasId(orderPositions, pos.assortmentId)
        orderedQty == IF hasIdMatch THEN QtyById(orderPositions, pos.assortmentId)
                      ELSE QtyByName(orderPositions, key)
        shippedQty == IF hasIdMatch THEN QtyById(shipped, pos.assortmentId)
                      ELSE QtyByName(shipped, key)
        currentQty == IF hasIdMatch THEN QtyById(demandPositions, pos.assortmentId)
                      ELSE QtyByName(demandPositions, key)
        remainingQty == Max(0, orderedQty - shippedQty)
        unitPrice == IF IsNumber(pos.price) THEN pos.price
                     ELSE Coalesce(OrderPriceByName(orderPositions, key), Null)
    IN  PdfPosition(pos.assortmentId, pos.name, currentQty, unitPrice, remainingQty,
                    IF IsNumber(unitPrice) THEN remainingQty * unitPrice ELSE Null)

\* the shipment line has an order line, by id or by name
Matched(pos, orderPositions) ==
    \/ HasId(orderPositions, pos.assortmentId)
    \/ HasName(orderPositions, NormalizeName(pos.name))

\* an unmatched line with nothing remaining
UnmatchedResult_Zero(pos) ==
    PdfPosition(pos.assortmentId, pos.name, pos.quantity,
                IF IsNumber(pos.price) THEN pos.price ELSE Null, 0, 0)

\* positions.push({...pos, remainingQty: null, remainingSum: null})
UnmatchedResult(pos) ==
    PdfPosition(pos.assortmentId, pos.name, pos.quantity,
                IF IsNumber(pos.price) THEN pos.price ELSE Null, Null, Null)

RECURSIVE UnmatchedLines(_, _)
UnmatchedLines(demandPositions, orderPositions) ==
    IF demandPositions = <<>> THEN <<>>
    ELSE (IF Matched(Head(demandPositions), orderPositions) THEN <<>>
          ELSE <<UnmatchedResult(Head(demandPositions))>>)
         \o UnmatchedLines(Tail(demandPositions), orderPositions)

\* the early return and the catch: the shipment lines as they are
AsGiven(demandPositions) ==
    [positions |-> [i \in 1..Len(demandPositions) |->
                       PdfPosition(demandPositions[i].assortmentId,
                                   demandPositions[i].name,
                                   demandPositions[i].quantity,
                                   demandPositions[i].price, Undefined, Undefined)],
     leftToPay |-> Null]

\* only the shipment being printed is counted
Shipped_CurrentOnly(in) == in.demandPositions

\* demandPositionLists: the lines of every shipment of the order
Shipped(in) == Flatten(in.shipments)

\* in.fetch: the order is linked and getCustomerOrder answers
BuildDemandPdfData(in) ==
    IF in.fetch # "ok" THEN AsGiven(in.demandPositions)
    ELSE LET shipped == Shipped(in)
         IN  [positions |->
                 [i \in 1..Len(in.orderPositions) |->
                     OrderLineResult(in.orderPositions[i], in.orderPositions,
                                     shipped, in.demandPositions)]
                 \o UnmatchedLines(in.demandPositions, in.orderPositions),
              leftToPay |->
                 LeftToPay(OrderTotal(in.sum, in.orderPositions),
                           ShippedTotal(in.orderPositions, shipped))]

\* the names of the products as the ERP spells them
NameAp == <<"A", "p">>
NameApLoose == <<" ", "a", "p">>
NamePr == <<"P", " ", " ", "r">>
NamePrLoose == <<"p", " ", "R">>
NameXx == <<"X", "x">>

OrderLineSet ==
    { PdfLine("A", NameAp, 2, 100), PdfLine("B", NamePr, 1, 200),
      PdfLine(NONE, NameAp, 2, 100), PdfLine(NONE, NamePrLoose, 1, Null) }

ShipLineSet ==
    { PdfLine("A", NameApLoose, 1, 100), PdfLine(NONE, NameApLoose, 1, 100),
      PdfLine("X", NameXx, 1, 50), PdfLine("B", NamePrLoose, 2, 200) }

SeqsUpTo(S, n) == UNION {[1..k -> S] : k \in 0..n}

\* the shipment printed is the last shipment of the order
PdfInput(fetch, sum, orderPositions, earlier, demandPositions) ==
    [fetch |-> fetch, sum |-> sum, orderPositions |-> orderPositions,
     shipments |-> <<earlier, demandPositions>>,
     demandPositions |-> demandPositions]

PdfInputs ==
    { PdfInput(f, s, o, e, d) :
        f \in {"ok", "throws"}, s \in {Null, 0, 500},
        o \in SeqsUpTo(OrderLineSet, MaxOrderLines),
        e \in SeqsUpTo(ShipLineSet, 1),
        d \in SeqsUpTo(ShipLineSet, MaxShipLines) }

\* an order of 10 A at 100.00 and 5 B at 200.00, shipped as 4 A and then
\* 3 A with 5 B
ExampleInputs ==
    { PdfInput("ok", s,
               <<PdfLine("A", NameAp, 10, 10000), PdfLine("B", NamePr, 5, 20000)>>,
               <<PdfLine("A", NameAp, 4, 10000)>>,
               <<PdfLine("A", NameAp, 3, 10000), PdfLine("B", NamePr, 5, 20000)>>) :
        s \in {Null, 250000} }

NoPdfInput == PdfInput(NONE, Null, <<>>, <<>>, <<>>)

NotBuilt == [built |-> FALSE, positions |-> <<>>, leftToPay |-> Null]

PdfIdle == pdfIn = NoPdfInput /\ pdfOut = NotBuilt

(***************************************************************************)
(* Draft orders.                                                           *)
(***************************************************************************)
MaxDrafts == 1

Handlers == {"h1", "h2"}

\* the users who shop
Shoppers == {"u1"}

Products == {"p1", "p2"}

\* the sale price of a product when the shop opens, times 100
ListPrice(p) == IF p = "p1" THEN 100 ELSE 250

\* getProductsByIds: the catalog price of a product, in major units times 100
Price(p) == catalog[p]

Item(id, q) == [id |-> id, quantity |-> q]

\* the item lists a request body carries; "px" is not a product of the ERP
ItemLists ==
    { <<>>, <<Item("", 1)>>, <<Item("px", 1)>>, <<Item("p1", 1)>>,
      <<Item("p1", 0), Item("", 1), Item("p2", 2)>> }

\* getProductsByIds rejects: the ERP answers 404 for one of the ids; empty
\* ids are not asked for
ProductsThrow(items) ==
    \E i \in 1..Len(items) : items[i].id \notin Products \cup {""}

RECURSIVE DraftItems(_)
\* body.items.map(...).filter(Boolean): items without a product dropped, the
\* price snapshotted in minor units, the quantity at least 1
DraftItems(items) ==
    IF items = <<>> THEN <<>>
    ELSE IF Head(items).id \notin Products THEN DraftItems(Tail(items))
    ELSE <<[productId |-> Head(items).id, price |-> Price(Head(items).id),
            quantity |-> Max(1, Head(items).quantity)]>>
            \o DraftItems(Tail(items))

\* the lists that reach the upsert
ValidLists ==
    {l \in ItemLists :
        ~ProductsThrow(l) /\ \E i \in 1..Len(l) : l[i].id \in Products}

NoDraft ==
    [id |-> 0, deliveryMethod |-> NONE, addressText |-> NONE,
     locationLat |-> NONE, locationLng |-> NONE, items |-> <<>>]

\* JavaScript truthiness of a nullable string or number
Truthy(x) == x \notin {NONE, "", "0"}

Body(items, m, address, lat, lng) ==
    [items |-> items, deliveryMethod |-> m, addressDetails |-> address,
     locationLat |-> lat, locationLng |-> lng]

\* the request bodies: no method, pickup, and delivery with nothing, with a
\* latitude alone, or with a location; the lists without a valid item once
Bodies ==
    { Body(i, m, NONE, NONE, NONE) :
        i \in ValidLists, m \in {NONE, "pickup", "delivery"} }
    \cup { Body(i, "delivery", NONE, "41.3", lng) :
             i \in ValidLists, lng \in {NONE, "69.2"} }
    \cup { Body(i, "pickup", NONE, NONE, NONE) : i \in ItemLists \ ValidLists }

\* the bodies whose list is without a valid item or the one-item list
OrderBodies ==
    {b \in Bodies : b.items \notin ValidLists \/ b.items = <<Item("p1", 1)>>}

\* mutant: the update branch creates the items without deleteMany
DraftUpsert_NoDelete(old, newId, body, items) ==
    [id |-> IF old.id = 0 THEN newId ELSE old.id,
     deliveryMethod |-> body.deliveryMethod,
     addressText |-> body.addressDetails,
     locationLat |-> body.locationLat,
     locationLng |-> body.locationLng,
     items |-> old.items \o items]

\* prisma.draftOrder.upsert({ where: { userId }, update: {..., items:
\* { deleteMany: {}, create: items } }, create: {...} })
DraftUpsert(old, newId, body, items) ==
    [id |-> IF old.id = 0 THEN newId ELSE old.id,
     deliveryMethod |-> body.deliveryMethod,
     addressText |-> body.addressDetails,
     locationLat |-> body.locationLat,
     locationLng |-> body.locationLng,
     items |-> items]

(***************************************************************************)
(* getOrCreateCounterparty(telegramId, phoneNumber).  fault: an ERP call   *)
(* of the resolution fails with something else than 404.                   *)
(***************************************************************************)
Phones == {"ph1", "ph2"}

ByPhone(erp, phone) == {c \in Customers : erp[c] = phone}

FreeIds(erp) == {c \in Customers : erp[c] = "free"}

Link(us, u, c) == [us EXCEPT ![u].moskladCounterpartyId = c]

Resolution(us, erp, result, cp) ==
    [users |-> us, erpCp |-> erp, result |-> result, cp |-> cp]

GetOrCreateCounterparty(us, erp, u, phone, fault) ==
    IF us[u].moskladCounterpartyId # NONE
    THEN IF fault THEN Resolution(us, erp, "error", NONE)
         ELSE IF erp[us[u].moskladCounterpartyId] \in Phones
              THEN Resolution(us, erp, "ok", us[u].moskladCounterpartyId)
              ELSE Resolution(Link(us, u, NONE), erp, "deleted", NONE)
    ELSE IF fault THEN Resolution(us, erp, "error", NONE)
    ELSE IF ByPhone(erp, phone) # {}
         THEN LET c == CHOOSE x \in ByPhone(erp, phone) : TRUE
              IN  Resolution(Link(us, u, c), erp, "ok", c)
    ELSE IF FreeIds(erp) # {}
         THEN LET c == CHOOSE x \in FreeIds(erp) : TRUE
              IN  Resolution(Link(us, u, c), [erp EXCEPT ![c] = phone], "ok", c)
    ELSE Resolution(us, erp, "error", NONE)

(***************************************************************************)
(* Handlers.  A slot holds one handler in flight: pc is the call it is     *)
(* suspended at, draft and phone are its local copies of the rows it read. *)
(***************************************************************************)
IdleSlot ==
    [pc |-> "idle", kind |-> NONE, user |-> NONE, phone |-> NONE,
     draft |-> NoDraft, cp |-> NONE]

Running(kind, user, pc, phone, draft, cp) ==
    [pc |-> pc, kind |-> kind, user |-> user, phone |-> phone,
     draft |-> draft, cp |-> cp]

\* again: the request upserted the item list the draft already had;
\* created: the positions of the orders the handler posted; draft: the
\* draft the handler worked on
\* text: the text message the handler was given
Ended(kind, user, found, reply) ==
    [kind |-> kind, user |-> user, found |-> found, reply |-> reply,
     again |-> FALSE, created |-> <<>>, draft |-> NoDraft, text |-> NONE]

NoEnded == Ended(NONE, NONE, NONE, NONE)

NoOrder ==
    [via |-> NONE, deliveryMethod |-> NONE, addressText |-> NONE,
     location |-> FALSE, draftLat |-> NONE, positions |-> <<>>]

NoUpsert == <<>>

\* a request is served by the first handler slot that is free
Free(h) == slots[h].pc = "idle" /\ (h = "h2" => slots["h1"].pc # "idle")

\* the handler answers at once
Answer(h, kind, u, reply) ==
    /\ slots' = slots
    /\ ended' = Ended(kind, u, NONE, reply)

\* the order lines without the price: the ERP prices them from the catalog
OrderPositions_NoPrice(items) ==
    [i \in 1..Len(items) |->
        [id |-> items[i].productId, quantity |-> items[i].quantity,
         price |-> Null]]

\* the order lines priced from the catalog at the time of the order
OrderPositions_Catalog(items) ==
    [i \in 1..Len(items) |->
        [id |-> items[i].productId, quantity |-> items[i].quantity,
         price |-> Price(items[i].productId)]]

\* items.map((i) => ({ id, quantity, price: i.price / 100 })) and the
\* Math.round(item.price * 100) of createCustomerOrder: minor units again
OrderPositions(items) ==
    [i \in 1..Len(items) |->
        [id |-> items[i].productId, quantity |-> items[i].quantity,
         price |-> items[i].price]]

\* the handler in flight ends; past "create" it has posted its order
End(h, found, reply) ==
    /\ slots' = [slots EXCEPT ![h] = IdleSlot]
    /\ ended' = [Ended(slots[h].kind, slots[h].user, found, reply) EXCEPT
                   !.created = IF slots[h].pc = "clear"
                               THEN <<OrderPositions(slots[h].draft.items)>>
                               ELSE <<>>,
                   !.draft = slots[h].draft]

Goto(h, pc) ==
    /\ slots' = [slots EXCEPT ![h].pc = pc]
    /\ ended' = NoEnded

Start(h, kind, u, pc, draft) ==
    /\ slots' = [slots EXCEPT ![h] =
                   Running(kind, u, pc, users[u].phoneNumber, draft, NONE)]
    /\ ended' = NoEnded

\* a delete of the items that leaves the draft row
DeleteDraft_ItemsOnly(u) ==
    /\ drafts' = [drafts EXCEPT ![u].items = <<>>]
    /\ lastUpsert' = [lastUpsert EXCEPT ![u] = NoUpsert]

\* prisma.draftOrder.deleteMany({ where: { userId } }) with the items
DeleteDraft(u) ==
    /\ drafts' = [drafts EXCEPT ![u] = NoDraft]
    /\ lastUpsert' = [lastUpsert EXCEPT ![u] = NoUpsert]

\* the registration guard middleware lets the update through
GuardPasses(u) == users[u].moskladCounterpartyId # NONE

\* the draft still needs an address: neither an address text nor a latitude
NeedsAddress(d) ==
    d.deliveryMethod = "delivery" /\ ~Truthy(d.addressText) /\ ~Truthy(d.locationLat)

\* the checks of order:confirm on the draft it read; NONE: go on to the ERP
ConfirmChecks(d) ==
    IF d.id = 0 \/ d.items = <<>> THEN "cartEmpty"
    ELSE IF ~Truthy(d.deliveryMethod) THEN "chooseDelivery"
    ELSE IF NeedsAddress(d) THEN "askAddress"
    ELSE NONE

\* REMINDER_DAYS_AFTER_ORDER || "1,2,3,6"
ReminderDays == {1, 2, 3, 6}

NoReminders == [d \in ReminderDays |-> 0]

\* prisma.reminder.deleteMany({ where: { userId } })
RemindersDeleted(rs, u) == [rs EXCEPT ![u] = NoReminders]

\* prisma.reminder.createMany: one row per day offset
RemindersCreated(rs, u) ==
    [rs EXCEPT ![u] = [d \in ReminderDays |-> rs[u][d] + 1]]

\* what POST /api/draft-order does after the draft is saved; body: the
\* request body, of which the saved draft holds the fields read here
HttpRoute(body, phone) ==
    IF body.deliveryMethod = "pickup" /\ Truthy(phone) THEN "submit"
    ELSE IF /\ body.deliveryMethod = "delivery" /\ Truthy(phone)
            /\ Truthy(body.locationLat) /\ Truthy(body.locationLng) THEN "submit"
    ELSE IF body.deliveryMethod = "delivery" /\ Truthy(phone) THEN "awaitingLocation"
    ELSE "draftId"

\* bot.action order:confirm up to getUser
BotConfirm(h, u) ==
    /\ Free(h)
    /\ IF ~GuardPasses(u) THEN Answer(h, "bot", u, "notRegistered")
       ELSE IF ~Truthy(users[u].phoneNumber) THEN Answer(h, "bot", u, "registerPrompt")
       ELSE Start(h, "bot", u, "read", NoDraft)
    /\ lastOrder' = NoOrder
    /\ UNCHANGED <<users, whVars, sideVars, reminders, seenDeleted, erpCp,
                   drafts, nextDraftId, ordersOf, lastUpsert>>

\* bot.action order:confirm: getDraftOrder and the checks on the draft
BotReadDraft(h) ==
    /\ slots[h].pc = "read"
    /\ LET d == drafts[slots[h].user]
       IN  IF ConfirmChecks(d) # NONE THEN End(h, NONE, ConfirmChecks(d))
           ELSE /\ slots' = [slots EXCEPT ![h].draft = d, ![h].pc = "resolve"]
                /\ ended' = NoEnded
    /\ lastOrder' = NoOrder
    /\ UNCHANGED <<users, whVars, sideVars, reminders, seenDeleted, erpCp,
                   drafts, nextDraftId, ordersOf, lastUpsert>>

\* bot.action order:cancel
BotCancel(h, u) ==
    /\ Free(h)
    /\ IF ~GuardPasses(u)
         THEN Answer(h, "bot", u, "notRegistered") /\ UNCHANGED <<drafts, lastUpsert>>
       ELSE IF ~Truthy(users[u].phoneNumber)
         THEN Answer(h, "bot", u, "registerPrompt") /\ UNCHANGED <<drafts, lastUpsert>>
       ELSE /\ slots' = slots
            /\ ended' = [Ended("bot", u, NONE, "orderCancelled")
                           EXCEPT !.draft = drafts[u]]
            /\ DeleteDraft(u)
    /\ lastOrder' = NoOrder
    /\ UNCHANGED <<users, whVars, sideVars, reminders, seenDeleted, erpCp,
                   nextDraftId, ordersOf>>

\* POST /api/draft-order up to the deleteMany of createOrderReminders
HttpDraftOrder(h, u, body) ==
    /\ Free(h)
    /\ LET items == DraftItems(body.items)
           saved == DraftUpsert(drafts[u], nextDraftId, body, items)
       IN  IF body.items = <<>>
             THEN /\ Answer(h, "http", u, "cartEmpty")
                  /\ UNCHANGED <<drafts, nextDraftId, lastUpsert, reminders>>
           ELSE IF ProductsThrow(body.items)
             THEN /\ Answer(h, "http", u, "error")
                  /\ UNCHANGED <<drafts, nextDraftId, lastUpsert, reminders>>
           ELSE IF items = <<>>
             THEN /\ Answer(h, "http", u, "noValidItems")
                  /\ UNCHANGED <<drafts, nextDraftId, lastUpsert, reminders>>
           ELSE /\ drafts[u].id # 0 \/ nextDraftId <= MaxDrafts
                /\ drafts' = [drafts EXCEPT ![u] = saved]
                /\ nextDraftId' = IF drafts[u].id = 0 THEN nextDraftId + 1
                                  ELSE nextDraftId
                /\ lastUpsert' = [lastUpsert EXCEPT ![u] = items]
                /\ reminders' = RemindersDeleted(reminders, u)
                /\ slots' = [slots EXCEPT ![h] =
                               Running("http", u, "remind",
                                       users[u].phoneNumber, saved, NONE)]
                /\ ended' = [Ended("http", u, NONE, NONE)
                               EXCEPT !.again = drafts[u].id # 0
                                                /\ drafts[u].items = items]
    /\ lastOrder' = NoOrder
    /\ UNCHANGED <<users, whVars, sideVars, seenDeleted, erpCp, ordersOf>>

\* POST /api/draft-order: the createMany of createOrderReminders and the
\* decision what to do with the saved draft
HttpRemind(h) ==
    /\ slots[h].pc = "remind"
    /\ reminders' = RemindersCreated(reminders, slots[h].user)
    /\ LET route == HttpRoute(slots[h].draft, slots[h].phone)
       IN  IF route = "submit" THEN Goto(h, "resolve")
           ELSE End(h, NONE, route)
    /\ lastOrder' = NoOrder
    /\ UNCHANGED <<users, whVars, sideVars, seenDeleted, erpCp, drafts,
                   nextDraftId, ordersOf, lastUpsert>>

\* POST /api/draft-order: the catch around the submission swallows
\* COUNTERPARTY_DELETED like any other error
HttpOnDeleted(us, u) == us

\* a reset that leaves the saved address
BotOnDeleted_KeepAddress(us, u) ==
    [x \in DOMAIN us |->
        IF x = u
        THEN [us[x] EXCEPT !.moskladCounterpartyId = NONE, !.phoneNumber = NONE,
                           !.pendingState = NONE]
        ELSE us[x]]

\* handleCounterpartyDeleted: prisma.user.updateMany({ where: { telegramId },
\* data: { moskladCounterpartyId, phoneNumber, defaultAddress, pendingState:
\* null } })
BotOnDeleted(us, u) ==
    [x \in DOMAIN us |->
        IF x = u
        THEN [us[x] EXCEPT !.moskladCounterpartyId = NONE, !.phoneNumber = NONE,
                           !.defaultAddress = NONE, !.pendingState = NONE]
        ELSE us[x]]

\* await getOrCreateCounterparty(...) of either entry point
Resolve(h, fault) ==
    /\ slots[h].pc = "resolve"
    /\ LET u == slots[h].user
           r == GetOrCreateCounterparty(users, erpCp, u, slots[h].phone, fault)
       IN  /\ erpCp' = r.erpCp
           /\ seenDeleted' = IF r.result = "deleted" THEN seenDeleted \cup {u}
                              ELSE seenDeleted
           /\ IF r.result = "ok"
                THEN /\ users' = r.users
                     /\ slots' = [slots EXCEPT ![h].cp = r.cp, ![h].pc = "create"]
                     /\ ended' = NoEnded
              ELSE IF r.result = "deleted"
                THEN IF slots[h].kind = "bot"
                       THEN /\ users' = BotOnDeleted(r.users, u)
                            /\ End(h, "deleted", "counterpartyDeleted")
                       ELSE /\ users' = HttpOnDeleted(r.users, u)
                            /\ End(h, "deleted", "draftId")
              ELSE /\ users' = r.users
                   /\ End(h, "error", IF slots[h].kind = "bot" THEN "error" ELSE "draftId")
    /\ lastOrder' = NoOrder
    /\ UNCHANGED <<whVars, sideVars, reminders, drafts, nextDraftId, ordersOf,
                   lastUpsert>>

\* the order createCustomerOrder posts: the location attribute is written
\* only when both coordinates are there
OrderOf(h) ==
    LET d == slots[h].draft
    IN  [via |-> slots[h].kind,
         deliveryMethod |-> d.deliveryMethod,
         addressText |-> d.addressText,
         location |-> Truthy(d.locationLat) /\ Truthy(d.locationLng),
         draftLat |-> d.locationLat,
         positions |-> OrderPositions(d.items)]

\* mutant: a failed order creation goes on to delete the draft
AfterCreateFailure_Clear(h) == Goto(h, "clear")

\* createCustomerOrder threw: the bot handler rejects, the HTTP handler
\* answers { draftId }; neither touches the draft
AfterCreateFailure(h) ==
    End(h, "createFailed", IF slots[h].kind = "bot" THEN "error" ELSE "draftId")

\* await createCustomerOrder(...) of either entry point
CreateOrder(h, fault) ==
    /\ slots[h].pc = "create"
    /\ IF fault
         THEN /\ AfterCreateFailure(h)
              /\ lastOrder' = NoOrder
              /\ UNCHANGED ordersOf
         ELSE /\ lastOrder' = OrderOf(h)
              /\ ordersOf' = [ordersOf EXCEPT
                               ![slots[h].kind][slots[h].draft.id] = Min(@ + 1, 2)]
              /\ Goto(h, "clear")
    /\ UNCHANGED <<users, whVars, sideVars, reminders, seenDeleted, erpCp,
                   drafts, nextDraftId, lastUpsert>>

\* clearDraft / prisma.draftOrder.delete(...).catch(() => {}) and the answer.
\* sendThrows: the sendTelegramMessage of the HTTP handler rejects and the
\* catch around the submission answers { draftId }
ClearDraft(h, sendThrows) ==
    /\ slots[h].pc = "clear"
    /\ sendThrows => slots[h].kind = "http"
    /\ DeleteDraft(slots[h].user)
    /\ IF sendThrows THEN End(h, "sendFailed", "draftId")
       ELSE End(h, "ok", IF slots[h].kind = "bot" THEN "orderCreated" ELSE "orderName")
    /\ users' = IF /\ slots[h].kind = "http" /\ ~sendThrows
                   /\ slots[h].draft.deliveryMethod = "delivery"
                THEN [users EXCEPT ![slots[h].user].defaultAddress = "41.3,69.2"]
                ELSE users
    /\ lastOrder' = NoOrder
    /\ UNCHANGED <<whVars, sideVars, reminders, seenDeleted, erpCp,
                   nextDraftId, ordersOf>>

\* bot.action delivery:(pickup|delivery)
BotDelivery(u, m) ==
    /\ GuardPasses(u) /\ Truthy(users[u].phoneNumber)
    /\ drafts[u].id # 0
    /\ drafts' = [drafts EXCEPT ![u] = [@ EXCEPT !.deliveryMethod = m,
                                                 !.addressText = NONE,
                                                 !.locationLat = NONE,
                                                 !.locationLng = NONE]]
    /\ lastOrder' = NoOrder /\ ended' = NoEnded
    /\ UNCHANGED <<users, whVars, sideVars, reminders, seenDeleted, erpCp,
                   nextDraftId, ordersOf, slots, lastUpsert>>

\* bot.on location
BotLocation(u) ==
    /\ GuardPasses(u) /\ Truthy(users[u].phoneNumber)
    /\ drafts[u].id # 0 /\ drafts[u].deliveryMethod = "delivery"
    /\ drafts' = [drafts EXCEPT ![u] = [@ EXCEPT !.locationLat = "41.3",
                                                 !.locationLng = "69.2"]]
    /\ lastOrder' = NoOrder /\ ended' = NoEnded
    /\ UNCHANGED <<users, whVars, sideVars, reminders, seenDeleted, erpCp,
                   nextDraftId, ordersOf, slots, lastUpsert>>

\* the sale prices a product takes in the ERP
SalePrices(p) == {ListPrice(p), ListPrice(p) + 20}

\* the sale price of a product is changed in the ERP
ErpPriceChange(p, price) ==
    /\ catalog[p] # price
    /\ catalog' = [catalog EXCEPT ![p] = price]
    /\ lastOrder' = NoOrder /\ ended' = NoEnded
    /\ UNCHANGED <<users, whVars, pdfVars, wkVars, moneyVars, pdfReply,
                   resetOut, admVars, runVars, rptVars, reminders, seenDeleted,
                   erpCp, drafts, nextDraftId, ordersOf, slots, lastUpsert>>

NoLatLng == [lat |-> NONE, lng |-> NONE]

\* parseLatLng: the pair of numbers a text is
parseLatLng(text) ==
    IF text = "41.3,69.2" THEN [lat |-> "41.3", lng |-> "69.2"] ELSE NoLatLng

\* formatAddress: what the saved-address button shows
formatAddress(addr) ==
    IF parseLatLng(addr) # NoLatLng THEN "GPS (41.3000, 69.2000)" ELSE addr

isSavedAddressChoice(text, address) == text = formatAddress(address)

\* the labels of the main menu; the shop label in the user's language only
isMenuText(text, lang) ==
    \/ text \in {"Buyurtmalar", "Zakazy", "Balans", "Til", "Yazyk",
                 "Sozlamalar", "Nastroyki"}
    \/ lang = "uz" /\ text = "Do'konni ochish"
    \/ lang = "ru" /\ text = "Otkryt magazin"

\* text.startsWith("/")
IsCommand(text) == text \in {"/start", "/help"}

\* the text messages of a user: a command, labels of the menu, an address,
\* coordinates, the label of the saved-address button
Texts ==
    {"/help", "Buyurtmalar", "Do'konni ochish", "Navoi 5", "41.3,69.2",
     "GPS (41.3000, 69.2000)"}

\* a text that stores the text itself, whatever it is
AddressUpdate_Literal(d, user, text, cpLoc) ==
    [d EXCEPT !.addressText = text]

\* the data of prisma.draftOrder.update in bot.on text; cpLoc: the location
\* getCounterpartyLocation finds for the saved address
AddressUpdate(d, user, text, cpLoc) ==
    IF Truthy(user.defaultAddress) /\ isSavedAddressChoice(text, user.defaultAddress)
    THEN [d EXCEPT !.addressText = user.defaultAddress,
                   !.locationLat = IF cpLoc = NoLatLng THEN @ ELSE cpLoc.lat,
                   !.locationLng = IF cpLoc = NoLatLng THEN @ ELSE cpLoc.lng]
    ELSE [d EXCEPT !.addressText = text,
                   !.locationLat = IF parseLatLng(text) = NoLatLng THEN @
                                   ELSE parseLatLng(text).lat,
                   !.locationLng = IF parseLatLng(text) = NoLatLng THEN @
                                   ELSE parseLatLng(text).lng]

\* the draft-cancel middleware, then bot.on text (after the hears handlers
\* of the menu labels): what a text message does to the draft
TextEffect(u, text, cpLoc) ==
    IF ~NeedsAddress(drafts[u]) THEN UNCHANGED <<drafts, lastUpsert>>
    ELSE IF IsCommand(text) \/ isMenuText(text, users[u].language)
      THEN DeleteDraft(u)
    ELSE /\ drafts' = [drafts EXCEPT ![u] =
                         AddressUpdate(@, users[u], text, cpLoc)]
         /\ UNCHANGED lastUpsert

\* what the bot answers to a text message
TextReply(u, text) ==
    IF IsCommand(text) \/ isMenuText(text, users[u].language) THEN "menu"
    ELSE IF NeedsAddress(drafts[u]) THEN "confirmation"
    ELSE "menuHint"

\* a text message while the draft needs an address; menu: a slash command
\* or a main-menu label, else an address
BotText(u, menu) ==
    /\ GuardPasses(u) /\ Truthy(users[u].phoneNumber)
    /\ NeedsAddress(drafts[u])
    /\ TextEffect(u, IF menu THEN "/help" ELSE "Navoi 5", NoLatLng)
    /\ lastOrder' = NoOrder /\ ended' = NoEnded
    /\ UNCHANGED <<users, whVars, sideVars, reminders, seenDeleted, erpCp,
                   nextDraftId, ordersOf, slots>>

\* a text message, with the answer and the draft it met
BotOnText(u, text, cpLoc) ==
    /\ GuardPasses(u) /\ Truthy(users[u].phoneNumber)
    /\ TextEffect(u, text, cpLoc)
    /\ ended' = [Ended("text", u, NONE, TextReply(u, text))
                   EXCEPT !.text = text, !.draft = drafts[u]]
    /\ lastOrder' = NoOrder
    /\ UNCHANGED <<users, whVars, sideVars, reminders, seenDeleted, erpCp,
                   nextDraftId, ordersOf, slots>>

\* the counterparty is deleted in the ERP
ErpDeleteCounterparty(c) ==
    /\ erpCp[c] \in Phones
    /\ erpCp' = [erpCp EXCEPT ![c] = "deleted"]
    /\ lastOrder' = NoOrder /\ ended' = NoEnded
    /\ UNCHANGED <<users, whVars, sideVars, reminders, seenDeleted, drafts,
                   nextDraftId, ordersOf, slots, lastUpsert>>

(***************************************************************************)
(* Registration and the weekly debt reminder.                              *)
(***************************************************************************)
\* prisma.user.updateMany({ where: { moskladCounterpartyId: c, NOT: u } })
Detach(us, c, u) ==
    [x \in DOMAIN us |->
        IF x # u /\ us[x].moskladCounterpartyId = c
        THEN [us[x] EXCEPT !.moskladCounterpartyId = NONE]
        ELSE us[x]]

\* the outcomes of the ERP calls of the contact handler
ContactFaults == {"none", "find", "create"}

\* bot.on contact: the user shares their own phone number
BotContact(u, phone, fault) ==
    LET saved == [users EXCEPT ![u].phoneNumber = phone]
        found == IF fault = "find" THEN {} ELSE ByPhone(erpCp, phone)
    IN  /\ IF found # {}
             THEN LET c == CHOOSE x \in found : TRUE
                  IN  /\ users' = [Link(Detach(saved, c, u), u, c)
                                     EXCEPT ![u].pendingState = NONE]
                      /\ UNCHANGED erpCp
           ELSE IF fault = "create" \/ FreeIds(erpCp) = {}
             THEN users' = saved /\ UNCHANGED erpCp
           ELSE LET c == CHOOSE x \in FreeIds(erpCp) : TRUE
                IN  /\ users' = Link(saved, u, c)
                    /\ erpCp' = [erpCp EXCEPT ![c] = phone]
        /\ ended' = Ended("contact", u, NONE, "registered")
        /\ seenDeleted' = seenDeleted \ {u}
        /\ lastOrder' = NoOrder
        /\ UNCHANGED <<whVars, sideVars, reminders, drafts, nextDraftId,
                       ordersOf, slots, lastUpsert>>

\* bot.start for a user who has a row
BotStart(u) ==
    /\ ended' = Ended("start", u, NONE,
                      IF ~Truthy(users[u].phoneNumber) THEN "registerPrompt"
                      ELSE "alreadyRegistered")
    /\ lastOrder' = NoOrder
    /\ UNCHANGED <<users, whVars, sideVars, reminders, seenDeleted, erpCp,
                   drafts, nextDraftId, ordersOf, slots, lastUpsert>>

\* processDebtReminders: the loop body for one user with a phone number
DebtReminder(u, fault) ==
    /\ users[u].phoneNumber # NONE
    /\ LET r == GetOrCreateCounterparty(users, erpCp, u, users[u].phoneNumber, fault)
       IN  /\ users' = r.users
           /\ erpCp' = r.erpCp
           /\ seenDeleted' = IF r.result = "deleted" THEN seenDeleted \cup {u}
                              ELSE seenDeleted
           /\ ended' = Ended("debt", u, r.result, NONE)
    /\ lastOrder' = NoOrder
    /\ UNCHANGED <<whVars, sideVars, reminders, drafts, nextDraftId, ordersOf,
                   slots, lastUpsert>>

\* the registration guard middleware for an update that is not /start, a
\* language choice or a contact: a press on the main menu
RegistrationGuard(u) ==
    /\ ended' = Ended("menu", u, NONE,
                      IF GuardPasses(u) THEN "menu" ELSE "notRegistered")
    /\ lastOrder' = NoOrder
    /\ UNCHANGED <<users, whVars, sideVars, reminders, seenDeleted, erpCp,
                   drafts, nextDraftId, ordersOf, slots, lastUpsert>>

\* the user shares the contact with the button of the registration prompt
\* they were just shown
PromptedContact(u, phone, fault) ==
    /\ ended = Ended("start", u, NONE, "registerPrompt")
    /\ BotContact(u, phone, fault)

(***************************************************************************)
(* The periodic workers: startReminderWorker and startReportScheduler.     *)
(* A run is the async callback of setInterval past its guards; it is in    *)
(* flight until its finally block has run.                                 *)
(***************************************************************************)
MaxRuns == 2

Workers == {"reminder", "report"}

NoTick == [worker |-> NONE, outcome |-> NONE]

\* the callback returns before isProcessing = true: a run is in flight, or
\* the clock is not at the target time, or today's reports are sent
TickSkips(w, due) ==
    \/ isProcessing[w]
    \/ ~due
    \/ w = "report" /\ lastDailyDate

\* startReminderWorker / startReportScheduler: clearInterval, setInterval
StartWorker(w) ==
    /\ timerOn' = [timerOn EXCEPT ![w] = TRUE]
    /\ lastTick' = NoTick
    /\ UNCHANGED <<isProcessing, inFlight, lastDailyDate>>
    /\ UNCHANGED <<users, whVars, ordVars, pdfVars, moneyVars, pdfReply, resetOut, admVars, lateVars>>

\* stopReminderWorker / stopReportScheduler
StopWorker(w) ==
    /\ timerOn[w] \/ isProcessing[w]
    /\ timerOn' = [timerOn EXCEPT ![w] = FALSE]
    /\ isProcessing' = [isProcessing EXCEPT ![w] = FALSE]
    /\ lastTick' = NoTick
    /\ UNCHANGED <<inFlight, lastDailyDate>>
    /\ UNCHANGED <<users, whVars, ordVars, pdfVars, moneyVars, pdfReply, resetOut, admVars, lateVars>>

\* the timer of w fires; due: the clock is at the target time
WorkerTick(w, due) ==
    /\ timerOn[w]
    /\ IF TickSkips(w, due)
         THEN /\ lastTick' = [worker |-> w, outcome |-> "skipped"]
              /\ UNCHANGED <<isProcessing, inFlight>>
         ELSE /\ inFlight[w] < MaxRuns
              /\ isProcessing' = [isProcessing EXCEPT ![w] = TRUE]
              /\ inFlight' = [inFlight EXCEPT ![w] = @ + 1]
              /\ lastTick' = [worker |-> w, outcome |-> "started"]
    /\ UNCHANGED <<timerOn, lastDailyDate>>
    /\ UNCHANGED <<users, whVars, ordVars, pdfVars, moneyVars, pdfReply, resetOut, admVars, lateVars>>

\* a run of w returns through its finally block; failed: it threw before
\* the report was sent
RunEnds(w, failed) ==
    /\ inFlight[w] > 0
    /\ inFlight' = [inFlight EXCEPT ![w] = @ - 1]
    /\ isProcessing' = [isProcessing EXCEPT ![w] = FALSE]
    /\ lastDailyDate' = IF w = "report" /\ ~failed THEN TRUE ELSE lastDailyDate
    /\ lastTick' = NoTick
    /\ UNCHANGED timerOn
    /\ UNCHANGED <<users, whVars, ordVars, pdfVars, moneyVars, pdfReply, resetOut, admVars, lateVars>>

\* midnight: lastDailyDate is yesterday's date
NextDay ==
    /\ lastDailyDate
    /\ lastDailyDate' = FALSE
    /\ lastTick' = NoTick
    /\ UNCHANGED <<timerOn, isProcessing, inFlight>>
    /\ UNCHANGED <<users, whVars, ordVars, pdfVars, moneyVars, pdfReply, resetOut, admVars, lateVars>>

(***************************************************************************)
(* The price of an order line on its way to the ERP: item.price / 100 in   *)
(* the handlers, Math.round(item.price * 100) in createCustomerOrder.      *)
(* Numbers are IEEE-754 doubles: 53 bits of mantissa, round to nearest,    *)
(* ties to even.  A double is written by its distance from the exact       *)
(* value, so that the arithmetic stays in small integers.                  *)
(***************************************************************************)
MaxMinor == 400

\* prices beyond the enumerated range, up to the largest 32-bit Int
LargePrices == {150000, 999999, 16777217, 2147483647}

MantissaBits == 53

RECURSIVE FloorLog2(_)
\* floor(log2(n)) for n >= 1
FloorLog2(n) == IF n < 2 THEN 0 ELSE 1 + FloorLog2(n \div 2)

RECURSIVE Pow2(_)
Pow2(n) == IF n = 0 THEN 1 ELSE 2 * Pow2(n - 1)

RECURSIVE Pow2Mod100(_)
Pow2Mod100(n) == IF n = 0 THEN 1 ELSE (2 * Pow2Mod100(n - 1)) % 100

RECURSIVE ShiftsTo100(_)
\* the least j with p * 2^j >= 100, for 1 <= p
ShiftsTo100(p) == IF p >= 100 THEN 0 ELSE 1 + ShiftsTo100(2 * p)

\* floor(log2(p / 100)) for p >= 1
QuotientExponent(p) ==
    IF p >= 100 THEN FloorLog2(p \div 100) ELSE 0 - ShiftsTo100(p)

\* p / 100: the double nearest to the quotient is (p + err / 2^k) / 100.
\* The mantissa is p * 2^k / 100 rounded to an integer; the remainder of
\* p * 2^k by 100 decides the direction, and is never 50 because k > 1.
DivideBy100(p) ==
    IF p = 0 THEN [num |-> 0, err |-> 0, k |-> 0]
    ELSE LET k == (MantissaBits - 1) - QuotientExponent(p)
             r == ((p % 100) * Pow2Mod100(k)) % 100
         IN  [num |-> p,
              err |-> IF r < 50 THEN 0 - r ELSE 100 - r,
              k |-> k]

\* x * 100: the exact product is num + err / 2^k; the double nearest to it
\* is num + ulps * 2^(e - 52), e the exponent of num.  half is half the
\* distance to the next double above num, in units of 2^-k; below a power
\* of two the doubles are twice as dense.  The mantissa of num is even, so
\* a tie goes to num.
TimesHundred(x) ==
    IF x.num = 0 THEN [num |-> 0, ulps |-> 0, e |-> 0]
    ELSE LET e == FloorLog2(x.num)
             half == Pow2(x.k + e - MantissaBits)
             powerOfTwo == x.num = Pow2(e)
             up == IF x.err <= half THEN 0
                   ELSE (x.err + half) \div (2 * half)
             down == IF powerOfTwo
                     THEN (IF 2 * (0 - x.err) <= half THEN 0
                           ELSE ((0 - x.err) * 2 + half) \div (2 * half))
                     ELSE (IF 0 - x.err <= half THEN 0
                           ELSE ((0 - x.err) + half) \div (2 * half))
         IN  [num |-> x.num,
              ulps |-> IF x.err >= 0 THEN up ELSE 0 - down,
              e |-> IF x.err < 0 /\ powerOfTwo /\ down > 0 THEN e - 1 ELSE e]

\* the double num + ulps * 2^(e - 52) is at least half away from num
HalfAway(y) ==
    LET n == IF y.ulps < 0 THEN 0 - y.ulps ELSE y.ulps
        shift == (MantissaBits - 2) - y.e
    IN  shift < 30 /\ (shift < 0 \/ n >= Pow2(shift))

\* Math.floor in place of Math.round
MathRound_Floor(y) == IF y.ulps < 0 THEN y.num - 1 ELSE y.num

\* Math.round(y) = floor(y + 0.5), for |y - num| < 1
MathRound(y) ==
    IF y.ulps > 0 /\ HalfAway(y) THEN y.num + 1
    ELSE IF y.ulps < 0 /\ HalfAway(y) /\ ~(0 - y.ulps = Pow2((MantissaBits - 2) - y.e))
         THEN y.num - 1
    ELSE y.num

\* the price createCustomerOrder posts for a draft item priced minor
ErpPrice(minor) == MathRound(TimesHundred(DivideBy100(minor)))

NotSent == -1

\* the handler hands the item to createCustomerOrder
SendPrice ==
    /\ minorOut = NotSent
    /\ minorOut' = ErpPrice(minorIn)
    /\ UNCHANGED <<users, whVars, ordVars, pdfVars, wkVars, minorIn, pdfReply, resetOut, admVars, lateVars>>

MoneyIdle == minorIn = 0 /\ minorOut = NotSent

(***************************************************************************)
(* POST /api/demands/:demandId/pdf?telegramId=                             *)
(***************************************************************************)
\* the telegramId of the query: a user, one without a row, or none
Callers == Users \cup {"u9", NONE}

\* demand.agent.meta.href: the entity of the path and the id after it
Href(entity, id) == [entity |-> entity, id |-> id]

\* the shipment has no agent
NoHref == Href(NONE, "")

AgentHrefs ==
    {NoHref} \cup {Href(e, id) : e \in {"counterparty", "organization"},
                                id \in Customers \cup {""}}

\* extractIdFromHref(href, "/entity/counterparty/")
ExtractIdFromHref(href) ==
    IF href = NoHref THEN NONE
    ELSE IF href.entity # "counterparty" THEN NONE
    ELSE IF href.id = "" THEN NONE
    ELSE href.id

PdfFaults == {NONE, "getDemand", "sendDocument"}

PdfReply(caller, href, status, sentTo) ==
    [caller |-> caller, href |-> href, status |-> status, sentTo |-> sentTo]

NoPdfReply == PdfReply(NONE, NoHref, 0, NONE)

\* the ownership check with the test on the shipment's counterparty only
Forbidden_AgentOnly(demandCounterpartyId, user) == demandCounterpartyId = NONE

\* !demandCounterpartyId || demandCounterpartyId !== user.moskladCounterpartyId
Forbidden(demandCounterpartyId, user) ==
    \/ demandCounterpartyId = NONE
    \/ demandCounterpartyId # user.moskladCounterpartyId

\* the whole handler; sentTo: the chat sendTelegramDocument delivered to
DemandPdfRequest(caller, href, fault) ==
    /\ pdfReply' =
          IF caller = NONE THEN PdfReply(caller, href, 400, NONE)
          ELSE IF caller \notin Users THEN PdfReply(caller, href, 404, NONE)
          ELSE IF fault = "getDemand" THEN PdfReply(caller, href, 500, NONE)
          ELSE IF Forbidden(ExtractIdFromHref(href), users[caller])
               THEN PdfReply(caller, href, 403, NONE)
          ELSE IF fault = "sendDocument" THEN PdfReply(caller, href, 500, NONE)
          ELSE PdfReply(caller, href, 200, caller)
    /\ UNCHANGED <<users, whVars, ordVars, pdfVars, wkVars, moneyVars, resetOut,
                   admVars, lateVars>>

\* no deletion has been handled
NoReset == [done |-> FALSE, user |-> NONE, webhook |-> <<>>, bot |-> <<>>]

\* the module-level state before any start call
WorkerIdle ==
    /\ timerOn = [w \in Workers |-> FALSE]
    /\ isProcessing = [w \in Workers |-> FALSE]
    /\ inFlight = [w \in Workers |-> 0]
    /\ lastDailyDate = FALSE
    /\ lastTick = NoTick

(***************************************************************************)
(* One run of the reminder worker: the interval callback of                *)
(* startReminderWorker, then processDebtReminders and                      *)
(* processOrderReminders, one awaited call per step.  Time is counted in   *)
(* days; day 0 is a Sunday.                                                *)
(***************************************************************************)
MaxDay == 8
MaxReminderId == 7

targetWeekday == 1
ThirtyDays == 30
LongAgo == 0 - ThirtyDays - 10

\* Date.prototype.getDay: 0 is Sunday
getDay(d) == d % 7

\* isSameWeek(date, compareTo): date is not before the Sunday of compareTo
isSameWeek(date, compareTo) == date >= compareTo - getDay(compareTo)

ReminderRow(id, u, due, sent) ==
    [id |-> id, user |-> u, dueAt |-> due, sentAt |-> sent]

\* REMINDER_DAYS_AFTER_ORDER in list order
ReminderOffsets == <<1, 2, 3, 6>>

RECURSIVE Sorted(_)
\* the ids of a set of rows in ascending order
Sorted(S) ==
    IF S = {} THEN <<>>
    ELSE LET m == CHOOSE x \in S : \A y \in S : x <= y
         IN  <<m>> \o Sorted(S \ {m})

\* the user rows by id
UserOrder == <<"u1", "u2">>

InOrder(S) == SelectSeq(UserOrder, LAMBDA u : u \in S)

\* where: { phoneNumber: { not: null } }, orderBy: { id: "asc" }
UsersWithPhone(us) == {u \in Users : us[u].phoneNumber # NONE}

\* where: { dueAt: { lte: now }, sentAt: null }
Pending_All(rows, at) == {r.id : r \in {x \in rows : x.dueAt <= at}}

Pending(rows, at) ==
    {r.id : r \in {x \in rows : x.dueAt <= at /\ x.sentAt = NotSent}}

\* the loop goes on after the catch block of an item
Rest_Abort(todo, thrown) == IF thrown THEN <<>> ELSE Tail(todo)

Rest(todo, thrown) == Tail(todo)

\* finally: prisma.user.update({ data: { lastDebtReminderAt: now } })
DebtStamp_SentOnly(ts, u, at, delivered) ==
    IF delivered THEN [ts EXCEPT ![u] = at] ELSE ts

DebtStamp(ts, u, at, delivered) == [ts EXCEPT ![u] = at]

Run(pc, at, todo, batch, seen, failed, snap) ==
    [pc |-> pc, at |-> at, todo |-> todo, batch |-> batch, seen |-> seen,
     failed |-> failed, snap |-> snap]

IdleRun == Run("idle", 0, <<>>, {}, {}, {}, [u \in Users |-> Null])

RunFrame ==
    UNCHANGED <<whVars, pdfVars, moneyVars, pdfReply, resetOut, admVars,
                rptVars, catalog, drafts, nextDraftId, lastOrder, ordersOf,
                slots, ended, seenDeleted, lastUpsert, reminders, timerOn,
                inFlight, lastDailyDate>>

\* finally { isProcessing = false } of the interval callback
RunReturns ==
    /\ isProcessing' = [isProcessing EXCEPT !["reminder"] = FALSE]
    /\ runPc' = IdleRun

\* the interval callback up to processDebtReminders; due: the clock shows
\* the target hour and minute
ReminderTick(due) ==
    /\ timerOn["reminder"]
    /\ IF isProcessing["reminder"] \/ getDay(now) # targetWeekday \/ ~due
         THEN /\ lastTick' = [worker |-> "reminder", outcome |-> "skipped"]
              /\ UNCHANGED <<isProcessing, runPc>>
         ELSE /\ lastTick' = [worker |-> "reminder", outcome |-> "started"]
              /\ isProcessing' = [isProcessing EXCEPT !["reminder"] = TRUE]
              /\ runPc' = [IdleRun EXCEPT !.pc = "debtQuery", !.at = now]
    /\ UNCHANGED <<users, erpCp, now, lastDebtReminderAt, orderReminders,
                   nextReminderId, debtLog, dispatched>>
    /\ RunFrame

\* processDebtReminders: getBaseCurrencyCode and prisma.user.findMany;
\* fault: one of them throws, which ends the run in the catch block of the
\* callback
DebtQuery(fault) ==
    /\ runPc.pc = "debtQuery"
    /\ IF fault THEN RunReturns
       ELSE LET batch == UsersWithPhone(users)
            IN  /\ runPc' = Run(IF batch = {} THEN "orderQuery" ELSE "debt",
                                 runPc.at, InOrder(batch), batch, {}, {},
                                 lastDebtReminderAt)
                /\ UNCHANGED isProcessing
    /\ lastTick' = NoTick
    /\ UNCHANGED <<users, erpCp, now, lastDebtReminderAt, orderReminders,
                   nextReminderId, debtLog, dispatched>>
    /\ RunFrame

DebtFaults == {"none", "lookup", "balance", "send"}

\* the for loop of processDebtReminders for the next user of the page;
\* negative: getCustomerBalance returns a balance below zero
DebtItem(fault, negative) ==
    /\ runPc.pc = "debt"
    /\ LET u == Head(runPc.todo)
           skip == /\ runPc.snap[u] # Null
                   /\ isSameWeek(runPc.snap[u], runPc.at)
           r == GetOrCreateCounterparty(users, erpCp, u,
                                        users[u].phoneNumber, fault = "lookup")
           reached == r.result = "ok" /\ fault # "balance" /\ negative
           delivered == reached /\ fault # "send"
           thrown == r.result # "ok" \/ fault = "balance"
                        \/ (reached /\ fault = "send")
           todo == IF skip THEN Tail(runPc.todo) ELSE Rest(runPc.todo, thrown)
       IN  /\ IF skip
                THEN UNCHANGED <<users, erpCp, lastDebtReminderAt, debtLog>>
                ELSE /\ users' = r.users
                     /\ erpCp' = r.erpCp
                     /\ lastDebtReminderAt' =
                           DebtStamp(lastDebtReminderAt, u, runPc.at, delivered)
                     /\ debtLog' =
                           IF delivered /\ Len(debtLog[u]) < 3
                           THEN [debtLog EXCEPT ![u] = Append(@, runPc.at)]
                           ELSE debtLog
           /\ runPc' = [runPc EXCEPT
                          !.pc = IF todo = <<>> THEN "orderQuery" ELSE "debt",
                          !.todo = todo,
                          !.seen = @ \cup {u},
                          !.failed = IF ~skip /\ thrown THEN @ \cup {u} ELSE @]
    /\ lastTick' = NoTick
    /\ UNCHANGED <<isProcessing, now, orderReminders, nextReminderId,
                   dispatched>>
    /\ RunFrame

\* processOrderReminders: prisma.reminder.findMany; fault: it throws, which
\* the catch block of processOrderReminders logs
OrderQuery(fault) ==
    /\ runPc.pc = "orderQuery"
    /\ IF fault THEN RunReturns
       ELSE LET batch == Pending(orderReminders, runPc.at)
            IN  /\ runPc' = Run(IF batch = {} THEN "prune" ELSE "orders",
                                 runPc.at, Sorted(batch), batch, {}, {},
                                 runPc.snap)
                /\ UNCHANGED isProcessing
    /\ lastTick' = NoTick
    /\ UNCHANGED <<users, erpCp, now, lastDebtReminderAt, orderReminders,
                   nextReminderId, debtLog, dispatched>>
    /\ RunFrame

\* the for loop of processOrderReminders for the next reminder: sendMessage,
\* then sentAt = now; sendThrows: the send fails.  The update of a row that
\* was deleted meanwhile throws into the same catch block.
OrderItem(sendThrows) ==
    /\ runPc.pc = "orders"
    /\ LET id == Head(runPc.todo)
           todo == Rest(runPc.todo, sendThrows)
       IN  /\ orderReminders' =
                 IF sendThrows THEN orderReminders
                 ELSE {IF r.id = id THEN [r EXCEPT !.sentAt = runPc.at] ELSE r :
                         r \in orderReminders}
           /\ dispatched' = IF sendThrows THEN dispatched
                            ELSE [dispatched EXCEPT ![id] = Min(@ + 1, 2)]
           /\ runPc' = [runPc EXCEPT
                          !.pc = IF todo = <<>> THEN "prune" ELSE "orders",
                          !.todo = todo,
                          !.seen = @ \cup {id},
                          !.failed = IF sendThrows THEN @ \cup {id} ELSE @]
    /\ lastTick' = NoTick
    /\ UNCHANGED <<users, erpCp, isProcessing, now, lastDebtReminderAt,
                   nextReminderId, debtLog>>
    /\ RunFrame

\* prisma.reminder.deleteMany of the rows sent more than thirty days ago,
\* then the finally block of the callback
OrderPrune ==
    /\ runPc.pc = "prune"
    /\ orderReminders' =
          {r \in orderReminders :
              ~(r.sentAt # NotSent /\ r.sentAt < runPc.at - ThirtyDays)}
    /\ RunReturns
    /\ lastTick' = NoTick
    /\ UNCHANGED <<users, erpCp, now, lastDebtReminderAt, nextReminderId,
                   debtLog, dispatched>>
    /\ RunFrame

\* createOrderReminders(userId): the rows of the user are replaced by one row
\* per day offset
CreateOrderReminders(u) ==
    /\ nextReminderId + Len(ReminderOffsets) - 1 <= MaxReminderId
    /\ orderReminders' =
          {r \in orderReminders : r.user # u}
          \cup {ReminderRow(nextReminderId + i - 1, u,
                            now + ReminderOffsets[i], NotSent) :
                  i \in DOMAIN ReminderOffsets}
    /\ nextReminderId' = nextReminderId + Len(ReminderOffsets)
    /\ lastTick' = NoTick
    /\ UNCHANGED <<users, erpCp, isProcessing, now, lastDebtReminderAt, runPc,
                   debtLog, dispatched>>
    /\ RunFrame

\* midnight
DayPasses ==
    /\ now < MaxDay
    /\ now' = now + 1
    /\ lastTick' = NoTick
    /\ UNCHANGED <<users, erpCp, isProcessing, lastDebtReminderAt,
                   orderReminders, nextReminderId, runPc, debtLog, dispatched>>
    /\ RunFrame

RunIdle ==
    /\ now = 0
    /\ lastDebtReminderAt = [u \in Users |-> Null]
    /\ orderReminders = {}
    /\ nextReminderId = 1
    /\ runPc = IdleRun
    /\ debtLog = [u \in Users |-> <<>>]
    /\ dispatched = [i \in 1..MaxReminderId |-> 0]


(***************************************************************************)
(* The report scheduler: the interval callback of startReportScheduler,    *)
(* sendDailyReport and sendWeeklyReport.  A date is the number of its day. *)
(***************************************************************************)
IdleReport == [pc |-> "idle", today |-> 0]

\* history: the dates of the reports sent, per kind, and the report whose
\* data could not be fetched last
NoReports == [daily |-> <<>>, weekly |-> <<>>, failed |-> <<>>]

\* lastDailyDate !== todayStr, lastWeeklyDate !== todayStr
ReportDue_Always(last, today) == TRUE

ReportDue(last, today) == last # today

\* getLocalDayOfWeek(now) === 0
IsSunday(d) == getDay(d) = 0

\* the report a run takes up next, from the daily report on or after it
NextReport(daily, weekly, today, afterDaily) ==
    IF ~afterDaily /\ ReportDue(daily, today) THEN "daily"
    ELSE IF IsSunday(today) /\ ReportDue(weekly, today) THEN "weekly"
    ELSE "idle"

ReportFrame ==
    UNCHANGED <<users, whVars, ordVars, pdfVars, moneyVars, pdfReply, resetOut,
                admVars, runVars, catalog, timerOn, inFlight, lastDailyDate>>

\* finally { isProcessing = false } of the interval callback
ReportReturns(next) ==
    IF next = "idle"
    THEN /\ isProcessing' = [isProcessing EXCEPT !["report"] = FALSE]
         /\ rptPc' = IdleReport
    ELSE /\ rptPc' = [rptPc EXCEPT !.pc = next]
         /\ UNCHANGED isProcessing

\* the interval callback up to the first await; atHour: the local hour is
\* REPORT_HOUR_LOCAL
ReportTick(atHour) ==
    /\ timerOn["report"]
    /\ IF \/ isProcessing["report"]
          \/ ~atHour
          \/ /\ lastDailyStr = now
             /\ (~IsSunday(now) \/ lastWeeklyDate = now)
         THEN /\ lastTick' = [worker |-> "report", outcome |-> "skipped"]
              /\ UNCHANGED <<isProcessing, rptPc>>
         ELSE /\ lastTick' = [worker |-> "report", outcome |-> "started"]
              /\ isProcessing' = [isProcessing EXCEPT !["report"] = TRUE]
              /\ rptPc' = [pc |-> NextReport(lastDailyStr, lastWeeklyDate,
                                             now, FALSE),
                           today |-> now]
    /\ UNCHANGED <<lastDailyStr, lastWeeklyDate, reportLog>>
    /\ ReportFrame

\* sendDailyReport / sendWeeklyReport: fetchReportData; fault: it throws,
\* which ends the run in the catch block of the callback
ReportFetch(fault) ==
    /\ rptPc.pc \in {"daily", "weekly"}
    /\ IF fault
         THEN /\ ReportReturns("idle")
              /\ reportLog' = [reportLog EXCEPT
                                 !.failed = <<rptPc.pc, rptPc.today>>]
         ELSE /\ rptPc' = [rptPc EXCEPT
                             !.pc = IF @ = "daily" THEN "dailySend"
                                    ELSE "weeklySend"]
              /\ UNCHANGED <<isProcessing, reportLog>>
    /\ lastTick' = NoTick
    /\ UNCHANGED <<lastDailyStr, lastWeeklyDate>>
    /\ ReportFrame

\* sendReportToAdmins, which catches the failure of every send, and then
\* lastDailyDate = todayStr or lastWeeklyDate = todayStr
ReportSend ==
    /\ rptPc.pc \in {"dailySend", "weeklySend"}
    /\ IF rptPc.pc = "dailySend"
         THEN /\ reportLog' = [reportLog EXCEPT
                                 !.daily = Append(@, rptPc.today)]
              /\ lastDailyStr' = rptPc.today
              /\ UNCHANGED lastWeeklyDate
              /\ ReportReturns(NextReport(rptPc.today, lastWeeklyDate,
                                          rptPc.today, TRUE))
         ELSE /\ reportLog' = [reportLog EXCEPT
                                 !.weekly = Append(@, rptPc.today)]
              /\ lastWeeklyDate' = rptPc.today
              /\ UNCHANGED lastDailyStr
              /\ ReportReturns("idle")
    /\ lastTick' = NoTick
    /\ ReportFrame

ReportIdle ==
    /\ lastDailyStr = Null
    /\ lastWeeklyDate = Null
    /\ rptPc = IdleReport
    /\ reportLog = NoReports

\* no run is in flight, no report was sent, the catalog has its list prices
LateIdle ==
    /\ RunIdle
    /\ ReportIdle
    /\ catalog = [p \in Products |-> ListPrice(p)]

DraftIds == 1..MaxDrafts

OrderIdle ==
    /\ erpCp = [c \in Customers |-> IF c = "c1" THEN "ph1" ELSE "free"]
    /\ drafts = [u \in Users |-> NoDraft]
    /\ nextDraftId = 1
    /\ lastOrder = NoOrder
    /\ ordersOf = [k \in {"bot", "http"} |-> [i \in DraftIds |-> 0]]
    /\ slots = [h \in Handlers |-> IdleSlot]
    /\ ended = NoEnded
    /\ seenDeleted = {}
    /\ lastUpsert = [u \in Users |-> NoUpsert]
    /\ reminders = [u \in Users |-> NoReminders]

(***************************************************************************)
(* Actions of POST /api/webhooks/mosklad                                   *)
(***************************************************************************)
HandlerEnded == whAborted \/ whPos = whN

\* a webhook request with n events arrives
Deliver(n) ==
    /\ HandlerEnded
    /\ whN' = n
    /\ whPos' = 0
    /\ whAborted' = FALSE
    /\ batchSet' = {}
    /\ cur' = NoEvent
    /\ out' = <<>>
    /\ curThrow' = NONE
    /\ UNCHANGED <<users, cacheTtl, adminPrefs, sinceCreate, ordVars, sideVars>>

\* one pass of the for loop over the events
HandleEvent(ev) ==
    /\ ~HandlerEnded
    /\ LET r == LoopBody(ev, users, adminPrefs, batchSet, cacheTtl)
       IN  \E failAt \in 0..Len(r.sends) :
           LET sendThrows == failAt > 0 IN
           /\ cur' = ev
           /\ out' = IF sendThrows THEN Prefix(r.sends, failAt - 1) ELSE r.sends
           /\ curThrow' = IF r.fetchThrows THEN "fetch"
                          ELSE IF sendThrows THEN "send" ELSE NONE
           /\ whAborted' = (r.fetchThrows \/ sendThrows)
           /\ whPos' = whPos + 1
           /\ batchSet' = batchSet \cup r.mark
           /\ cacheTtl' = IF r.mark = {} THEN cacheTtl
                          ELSE CacheSet(cacheTtl, ev.agent, DemandCreatedTtl)
           /\ sinceCreate' = IF ReachedDemandCreate(r)
                             THEN [sinceCreate EXCEPT ![ev.agent] = 0]
                             ELSE sinceCreate
           /\ users' = IF r.reset = NONE THEN users ELSE ResetUser(users, r.reset)
    /\ UNCHANGED <<whN, adminPrefs, ordVars, sideVars>>

\* TickSeconds seconds pass
Tick ==
    /\ \E c \in Customers : cacheTtl[c] > 0 \/ sinceCreate[c] \notin {Never, SinceCap}
    /\ cacheTtl' = CacheAdvance(cacheTtl, TickSeconds)
    /\ sinceCreate' = [c \in Customers |->
                         IF sinceCreate[c] = Never THEN Never
                         ELSE Min(sinceCreate[c] + TickSeconds, SinceCap)]
    /\ UNCHANGED <<users, batchSet, whN, whPos, whAborted, cur, out, curThrow,
                   adminPrefs, ordVars, sideVars>>

RegisteredUser(phone, c) ==
    [phoneNumber |-> phone, moskladCounterpartyId |-> c,
     defaultAddress |-> NONE, pendingState |-> NONE, language |-> "uz"]

AdminTypes == {"newUser", "newOrder", "orderUpdate", "payment"}

(***************************************************************************)
(* Admin notification settings: the settings panel of the bot (open,       *)
(* toggle, save) and notifyAdminsByType of the bot and of the webhook      *)
(* handler.  A callback code is the string of the button, as characters.   *)
(***************************************************************************)
\* ADMIN_TELEGRAM_IDS in list order; u1 and u2 have user rows, a9 has none
AdminList == <<"u1", "a9", "u2">>

getAdminIds == {AdminList[i] : i \in DOMAIN AdminList}

isAdmin(a) == a \in getAdminIds

\* who presses a button: an admin with a user row, an admin without one and
\* an account that is no admin; the admin u2 has saved before or never
Pressers == {"u1", "a9", "u9"}

\* prisma.user.findUnique({ where: { telegramId } }) finds a row
HasUserRow(a) == a \in Users

AdminPanelStates == [AdminTypes -> BOOLEAN]

AllOff == [t \in AdminTypes |-> FALSE]

\* a row of adminSettings; saved is FALSE where findUnique returns null
SettingsRow(nu, no, os, ou, pm) ==
    [saved |-> TRUE, notifyNewUser |-> nu, notifyNewOrder |-> no,
     notifyOrderStatus |-> os, notifyOrderUpdate |-> ou, notifyPayment |-> pm]

NoSettings ==
    [saved |-> FALSE, notifyNewUser |-> FALSE, notifyNewOrder |-> FALSE,
     notifyOrderStatus |-> FALSE, notifyOrderUpdate |-> FALSE,
     notifyPayment |-> FALSE]

\* baseStates of showAdminPanel: settings?.x ?? false
BaseStates(settings) ==
    IF ~settings.saved THEN AllOff
    ELSE [t \in AdminTypes |->
            CASE t = "newUser" -> settings.notifyNewUser
              [] t = "newOrder" -> settings.notifyNewOrder
              [] t = "orderUpdate" ->
                    settings.notifyOrderUpdate \/ settings.notifyOrderStatus
              [] t = "payment" -> settings.notifyPayment]

Digit(b) == IF b THEN "1" ELSE "0"

Tag(t) ==
    CASE t = "newUser" -> <<"n", "u">>
      [] t = "newOrder" -> <<"n", "o">>
      [] t = "orderUpdate" -> <<"o", "u">>
      [] t = "payment" -> <<"p", "m">>

encodeAdminStates(st) ==
    Tag("newUser") \o <<Digit(st["newUser"])>>
      \o Tag("newOrder") \o <<Digit(st["newOrder"])>>
      \o Tag("orderUpdate") \o <<Digit(st["orderUpdate"])>>
      \o Tag("payment") \o <<Digit(st["payment"])>>

\* String.prototype.includes
Includes(code, pat) ==
    \E i \in 1..(Len(code) - Len(pat) + 1) :
        SubSeq(code, i, i + Len(pat) - 1) = pat

\* a decoder that looks for the second letter of the tag only
decodeAdminStates_Short(code) ==
    [t \in AdminTypes |-> Includes(code, <<Tag(t)[2], "1">>)]

decodeAdminStates(code) ==
    [t \in AdminTypes |-> Includes(code, Tag(t) \o <<"1">>)]

\* the codes a callback can carry: those of the panel's buttons and other
\* strings that match [a-z0-9]+
CallbackCodes ==
    {encodeAdminStates(st) : st \in AdminPanelStates}
      \cup {<<"x">>, <<"p", "m", "1">>}

\* the row written by prisma.adminSettings.upsert of admin:save
SavedSettings(old, st) ==
    SettingsRow(st["newUser"], st["newOrder"], st["orderUpdate"],
                st["orderUpdate"], st["payment"])

Panel(op, by, st) ==
    [op |-> op, by |-> by, states |-> st, code |-> encodeAdminStates(st)]

NoPanel == [op |-> NONE, by |-> NONE, states |-> AllOff, code |-> <<>>]

\* showAdminPanel(ctx, bot, edit, pendingStates)
showAdminPanel(op, a, pending, staged) ==
    IF ~HasUserRow(a) THEN NoPanel
    ELSE Panel(op, a, IF pending THEN staged ELSE BaseStates(adminSettings[a]))

\* hasChanges: the panel shows the save button, else the back button
hasChanges(p) == p.states # BaseStates(adminSettings[p.by])

NoBroadcast == [type |-> NONE, pos |-> 0, sent |-> {}]

\* shouldNotify[type] of notifyAdminsByType
shouldNotify_Any(settings, type) ==
    \/ settings.notifyNewUser
    \/ settings.notifyNewOrder
    \/ settings.notifyOrderUpdate \/ settings.notifyOrderStatus
    \/ settings.notifyPayment

shouldNotify(settings, type) ==
    CASE type = "newUser" -> settings.notifyNewUser
      [] type = "newOrder" -> settings.notifyNewOrder
      [] type = "orderUpdate" ->
            settings.notifyOrderUpdate \/ settings.notifyOrderStatus
      [] type = "payment" -> settings.notifyPayment

AdminFrame ==
    UNCHANGED <<users, whVars, ordVars, pdfVars, wkVars, moneyVars, pdfReply,
                resetOut, lateVars>>

\* bot.hears of the settings label
HearsSettings(a) ==
    /\ panel' = IF ~isAdmin(a) THEN NoPanel
                ELSE showAdminPanel("opened", a, FALSE, AllOff)
    /\ UNCHANGED <<adminSettings, bcast>>
    /\ AdminFrame

\* bot.action admin:toggle:<field>:<code>
AdminToggle(a, field, code) ==
    /\ panel' = IF ~isAdmin(a) THEN NoPanel
                ELSE LET st == decodeAdminStates(code)
                     IN  showAdminPanel("toggled", a, TRUE,
                                        [st EXCEPT ![field] = ~st[field]])
    /\ UNCHANGED <<adminSettings, bcast>>
    /\ AdminFrame

\* bot.action admin:save:<code>
AdminSave(a, code) ==
    /\ IF ~isAdmin(a) \/ ~HasUserRow(a)
       THEN /\ panel' = NoPanel
            /\ UNCHANGED adminSettings
       ELSE LET st == decodeAdminStates(code)
            IN  /\ adminSettings' =
                     [adminSettings EXCEPT ![a] = SavedSettings(@, st)]
                /\ panel' = [op |-> "saved", by |-> a, states |-> st,
                             code |-> code]
    /\ UNCHANGED bcast
    /\ AdminFrame

\* notifyAdminsByType of the webhook handler is called
NotifyAdminsByType(type) ==
    /\ bcast.pos = 0
    /\ bcast' = [type |-> type, pos |-> 1, sent |-> {}]
    /\ panel' = NoPanel
    /\ UNCHANGED adminSettings
    /\ AdminFrame

\* notifyAdminsByType of the bot is called (a user has registered)
BotNotifyAdminsByType ==
    /\ bcast.pos = 0
    /\ bcast' = [type |-> "newUser", pos |-> 1, sent |-> {}]
    /\ panel' = NoPanel
    /\ UNCHANGED adminSettings
    /\ AdminFrame

\* one pass of the loop over adminIds; the message may fail to arrive
NotifyNext(delivered) ==
    /\ bcast.pos \in DOMAIN AdminList
    /\ LET a == AdminList[bcast.pos]
           send == /\ HasUserRow(a)
                   /\ adminSettings[a].saved
                   /\ shouldNotify(adminSettings[a], bcast.type)
       IN  bcast' = [type |-> bcast.type,
                     pos |-> IF bcast.pos = Len(AdminList) THEN 0
                             ELSE bcast.pos + 1,
                     sent |-> IF send /\ delivered THEN bcast.sent \cup {a}
                              ELSE bcast.sent]
    /\ panel' = NoPanel
    /\ UNCHANGED adminSettings
    /\ AdminFrame

AllOn == [t \in AdminTypes |-> TRUE]

\* the rows admin:save can have written for u2
EarlierRows ==
    {NoSettings} \cup
    {SavedSettings(NoSettings, st) :
        st \in {AllOff, AllOn, [AllOff EXCEPT !["newOrder"] = TRUE]}}

\* no admin has saved settings, nothing is in flight
AdminIdle ==
    /\ adminSettings = [u \in Users |-> NoSettings]
    /\ panel = NoPanel
    /\ bcast = NoBroadcast

WebhookIdle ==
    /\ cacheTtl = [c \in Customers |-> 0]
    /\ sinceCreate = [c \in Customers |-> Never]
    /\ batchSet = {}
    /\ whN = 0
    /\ whPos = 0
    /\ whAborted = FALSE
    /\ cur = NoEvent
    /\ out = <<>>
    /\ curThrow = NONE
    /\ adminPrefs = AdminTypes

InitWebhook ==
    /\ users = [u \in Users |->
                  RegisteredUser("phone", IF u = "u1" THEN "c1" ELSE "c2")]
    /\ WebhookIdle
    /\ OrderIdle
    /\ PdfIdle
    /\ WorkerIdle
    /\ MoneyIdle
    /\ pdfReply = NoPdfReply
    /\ resetOut = NoReset
    /\ AdminIdle
    /\ LateIdle

NextWebhook ==
    \/ \E n \in 1..MaxBatch : Deliver(n)
    \/ \E ev \in Events : HandleEvent(ev)
    \/ Tick

SpecWebhook == InitWebhook /\ [][NextWebhook]_vars

\* u1 is registered, with or without a saved default address
InitOrder ==
    /\ \E a \in {NONE, "41.3,69.2"} :
          users = [u \in Users |->
                     IF u = "u1"
                     THEN [RegisteredUser("ph1", "c1") EXCEPT !.defaultAddress = a]
                     ELSE RegisteredUser("ph2", NONE)]
    /\ WebhookIdle
    /\ OrderIdle
    /\ PdfIdle
    /\ WorkerIdle
    /\ MoneyIdle
    /\ pdfReply = NoPdfReply
    /\ resetOut = NoReset
    /\ AdminIdle
    /\ LateIdle

\* the steps of the handlers hs for requests with the bodies bs
OrderStep(hs, bs) ==
    \/ \E h \in hs, u \in Shoppers : BotConfirm(h, u)
    \/ \E h \in hs : BotReadDraft(h)
    \/ \E h \in hs, u \in Shoppers : BotCancel(h, u)
    \/ \E h \in hs, u \in Shoppers, body \in bs : HttpDraftOrder(h, u, body)
    \/ \E h \in hs : HttpRemind(h)
    \/ \E h \in hs, fault \in BOOLEAN : Resolve(h, fault)
    \/ \E h \in hs, fault \in BOOLEAN : CreateOrder(h, fault)
    \/ \E h \in hs, sendThrows \in BOOLEAN : ClearDraft(h, sendThrows)
    \/ \E u \in Shoppers, m \in {"pickup", "delivery"} : BotDelivery(u, m)
    \/ \E u \in Shoppers : BotLocation(u)
    \/ \E u \in Shoppers, menu \in BOOLEAN : BotText(u, menu)
    \/ \E c \in Customers : ErpDeleteCounterparty(c)

\* two handlers in flight, the bodies with one list of catalog items
NextOrder == OrderStep(Handlers, OrderBodies)

SpecOrder == InitOrder /\ [][NextOrder]_vars

\* one handler at a time, every body
NextDraft == OrderStep({"h1"}, Bodies)

SpecDraft == InitOrder /\ [][NextDraft]_vars

\* the bodies of the storefront for one product: any method, with or without
\* an address text, with no coordinate, a latitude alone or a location
AddressBodies ==
    { Body(<<Item("p1", 1)>>, m, a, c[1], c[2]) :
        m \in {NONE, "pickup", "delivery"}, a \in {NONE, "Navoi 5"},
        c \in {<<NONE, NONE>>, <<"41.3", NONE>>, <<"41.3", "69.2">>} }

\* the locations getCounterpartyLocation returns: none or the attribute
CounterpartyLocations == {NoLatLng, parseLatLng("41.3,69.2")}

\* u1 is registered, without a saved address or with a saved location
InitAddress == InitOrder

\* the draft of the shopper from the request of the storefront to the
\* confirmation, the cancellation or the escape, one handler at a time
NextAddress ==
    \/ \E u \in Shoppers, body \in AddressBodies : HttpDraftOrder("h1", u, body)
    \/ HttpRemind("h1")
    \/ \E fault \in BOOLEAN : Resolve("h1", fault)
    \/ \E fault \in BOOLEAN : CreateOrder("h1", fault)
    \/ \E sendThrows \in BOOLEAN : ClearDraft("h1", sendThrows)
    \/ \E u \in Shoppers : BotConfirm("h1", u)
    \/ BotReadDraft("h1")
    \/ \E u \in Shoppers : BotCancel("h1", u)
    \/ \E u \in Shoppers, m \in {"pickup", "delivery"} : BotDelivery(u, m)
    \/ \E u \in Shoppers : BotLocation(u)
    \/ \E u \in Shoppers, text \in Texts, cpLoc \in CounterpartyLocations :
          BotOnText(u, text, cpLoc)

SpecAddress == InitAddress /\ [][NextAddress]_vars

\* the same steps while the sale price of the product changes in the ERP
NextPrice ==
    \/ NextAddress
    \/ \E price \in SalePrices("p1") : ErpPriceChange("p1", price)

SpecPrice == InitAddress /\ [][NextPrice]_vars

\* the pickup request for one product
PickupBody == Body(<<Item("p1", 1)>>, "pickup", NONE, NONE, NONE)

\* every user is registered, without a saved address, or has shared a phone
\* number and the creation of the counterparty failed
InitRegister ==
    /\ users = [u \in Users |->
                  IF u = "u1" THEN RegisteredUser("ph1", "c1")
                  ELSE RegisteredUser("ph2", NONE)]
    /\ WebhookIdle
    /\ OrderIdle
    /\ PdfIdle
    /\ WorkerIdle
    /\ MoneyIdle
    /\ pdfReply = NoPdfReply
    /\ resetOut = NoReset
    /\ AdminIdle
    /\ LateIdle

\* the registration and the debt reminder of every user, and the pickup
\* request and the confirmation of the shopper, one handler at a time
NextRegister ==
    \/ \E u \in Users, phone \in Phones, fault \in ContactFaults :
          BotContact(u, phone, fault)
    \/ \E u \in Users : BotStart(u)
    \/ \E u \in Users, fault \in BOOLEAN : DebtReminder(u, fault)
    \/ \E c \in Customers : ErpDeleteCounterparty(c)
    \/ \E u \in Shoppers : HttpDraftOrder("h1", u, PickupBody)
    \/ HttpRemind("h1")
    \/ \E u \in Shoppers : BotConfirm("h1", u)
    \/ BotReadDraft("h1")
    \/ \E fault \in BOOLEAN : Resolve("h1", fault)
    \/ \E fault \in BOOLEAN : CreateOrder("h1", fault)
    \/ \E sendThrows \in BOOLEAN : ClearDraft("h1", sendThrows)

SpecRegister == InitRegister /\ [][NextRegister]_vars

\* the webhook handler and GET demand pdf call buildDemandPdfData
BuildPdf ==
    /\ ~pdfOut.built
    /\ LET r == BuildDemandPdfData(pdfIn)
       IN  pdfOut' = [built |-> TRUE, positions |-> r.positions,
                      leftToPay |-> r.leftToPay]
    /\ UNCHANGED <<users, whVars, ordVars, pdfIn, wkVars, moneyVars, pdfReply, resetOut, admVars, lateVars>>

InitPdf ==
    /\ users = [u \in Users |->
                  RegisteredUser("phone", IF u = "u1" THEN "c1" ELSE "c2")]
    /\ WebhookIdle
    /\ OrderIdle
    /\ pdfIn \in PdfInputs \cup ExampleInputs
    /\ pdfOut = NotBuilt
    /\ WorkerIdle
    /\ MoneyIdle
    /\ pdfReply = NoPdfReply
    /\ resetOut = NoReset
    /\ AdminIdle
    /\ LateIdle

NextPdf == BuildPdf

SpecPdf == InitPdf /\ [][NextPdf]_vars

InitWorker ==
    /\ users = [u \in Users |->
                  RegisteredUser("phone", IF u = "u1" THEN "c1" ELSE "c2")]
    /\ WebhookIdle
    /\ OrderIdle
    /\ PdfIdle
    /\ WorkerIdle
    /\ MoneyIdle
    /\ pdfReply = NoPdfReply
    /\ resetOut = NoReset
    /\ AdminIdle
    /\ LateIdle

NextWorker ==
    \/ \E w \in Workers : StartWorker(w)
    \/ \E w \in Workers : StopWorker(w)
    \/ \E w \in Workers, due \in BOOLEAN : WorkerTick(w, due)
    \/ \E w \in Workers, failed \in BOOLEAN : RunEnds(w, failed)
    \/ NextDay

SpecWorker == InitWorker /\ [][NextWorker]_vars

InitMoney ==
    /\ users = [u \in Users |->
                  RegisteredUser("phone", IF u = "u1" THEN "c1" ELSE "c2")]
    /\ WebhookIdle
    /\ OrderIdle
    /\ PdfIdle
    /\ WorkerIdle
    /\ minorIn \in 0..MaxMinor \cup LargePrices
    /\ minorOut = NotSent
    /\ pdfReply = NoPdfReply
    /\ resetOut = NoReset
    /\ AdminIdle
    /\ LateIdle

NextMoney == SendPrice

\* the user rows a deletion can meet: each user linked to a counterparty of
\* their own, with or without a saved address and a pending flow
ResetUsers ==
    {us \in [Users -> [phoneNumber : {"ph1"},
                       moskladCounterpartyId : Customers,
                       defaultAddress : {NONE, "41.3,69.2"},
                       pendingState : {NONE, "registrationAddress"},
                       language : {"uz", "ru"}]] :
        us["u1"].moskladCounterpartyId # us["u2"].moskladCounterpartyId}

\* POST /api/webhooks/mosklad handles the DELETE event of counterparty c
AfterWebhookDelete(us, c) ==
    LET ev == Event("counterparty", "DELETE", {},
                    [agent |-> c, applicable |-> TRUE, fetch |-> "ok"])
        r == LoopBody(ev, us, AdminTypes, {}, [x \in Customers |-> 0])
    IN  IF r.reset = NONE THEN us ELSE ResetUser(us, r.reset)

\* order:confirm of user u whose counterparty the ERP no longer has:
\* getOrCreateCounterparty throws COUNTERPARTY_DELETED, the handler escalates
AfterBotDeleted(us, u) ==
    LET erp == [c \in Customers |->
                  IF c = us[u].moskladCounterpartyId THEN "deleted" ELSE "ph1"]
        r == GetOrCreateCounterparty(us, erp, u, us[u].phoneNumber, FALSE)
    IN  IF r.result = "deleted" THEN BotOnDeleted(r.users, u) ELSE r.users

\* the counterparty of u is deleted: both triggers, each from the same rows
DeleteTriggers(u) ==
    /\ ~resetOut.done
    /\ resetOut' = [done |-> TRUE, user |-> u,
                    webhook |-> AfterWebhookDelete(users, users[u].moskladCounterpartyId),
                    bot |-> AfterBotDeleted(users, u)]
    /\ UNCHANGED <<users, whVars, ordVars, pdfVars, wkVars, moneyVars, pdfReply,
                   admVars, lateVars>>

InitReset ==
    /\ users \in ResetUsers
    /\ WebhookIdle
    /\ OrderIdle
    /\ PdfIdle
    /\ WorkerIdle
    /\ MoneyIdle
    /\ pdfReply = NoPdfReply
    /\ resetOut = NoReset
    /\ AdminIdle
    /\ LateIdle

NextReset == \E u \in Users : DeleteTriggers(u)

SpecReset == InitReset /\ [][NextReset]_vars

InitAdmin ==
    /\ users = [u \in Users |->
                  RegisteredUser("phone", IF u = "u1" THEN "c1" ELSE "c2")]
    /\ WebhookIdle
    /\ OrderIdle
    /\ PdfIdle
    /\ WorkerIdle
    /\ MoneyIdle
    /\ pdfReply = NoPdfReply
    /\ resetOut = NoReset
    /\ \E row \in EarlierRows :
          adminSettings = [u \in Users |->
                             IF u = "u2" THEN row ELSE NoSettings]
    /\ panel = NoPanel
    /\ bcast = NoBroadcast
    /\ LateIdle

\* the settings panel
NextAdmin ==
    \/ \E a \in Pressers : HearsSettings(a)
    \/ \E a \in Pressers, f \in AdminTypes, code \in CallbackCodes :
          AdminToggle(a, f, code)
    \/ \E a \in Pressers, code \in CallbackCodes : AdminSave(a, code)

SpecAdmin == InitAdmin /\ [][NextAdmin]_vars

\* broadcasts while admins save their settings
NextBroadcast ==
    \/ \E a \in Pressers, code \in CallbackCodes : AdminSave(a, code)
    \/ \E type \in {"newOrder", "orderUpdate", "payment"} :
          NotifyAdminsByType(type)
    \/ BotNotifyAdminsByType
    \/ \E delivered \in BOOLEAN : NotifyNext(delivered)

SpecBroadcast == InitAdmin /\ [][NextBroadcast]_vars

\* the worker is started; two reminders are due on the first Monday, one was
\* sent long ago
InitRun ==
    /\ users = [u \in Users |->
                  IF u = "u1" THEN RegisteredUser("ph1", "c1")
                  ELSE RegisteredUser("ph2", NONE)]
    /\ WebhookIdle
    /\ OrderIdle
    /\ PdfIdle
    /\ timerOn = [w \in Workers |-> w = "reminder"]
    /\ isProcessing = [w \in Workers |-> FALSE]
    /\ inFlight = [w \in Workers |-> 0]
    /\ lastDailyDate = FALSE
    /\ lastTick = NoTick
    /\ MoneyIdle
    /\ pdfReply = NoPdfReply
    /\ resetOut = NoReset
    /\ AdminIdle
    /\ now = 0
    /\ lastDebtReminderAt = [u \in Users |-> Null]
    /\ orderReminders = {ReminderRow(1, "u1", 1, NotSent),
                         ReminderRow(2, "u2", 1, NotSent),
                         ReminderRow(3, "u1", LongAgo - 3, LongAgo)}
    /\ nextReminderId = 4
    /\ runPc = IdleRun
    /\ debtLog = [u \in Users |-> <<>>]
    /\ dispatched = [i \in 1..MaxReminderId |-> IF i = 3 THEN 1 ELSE 0]
    /\ ReportIdle
    /\ catalog = [p \in Products |-> ListPrice(p)]

NextRun ==
    \/ \E due \in BOOLEAN : ReminderTick(due)
    \/ \E fault \in BOOLEAN : DebtQuery(fault)
    \/ \E fault \in DebtFaults, negative \in BOOLEAN : DebtItem(fault, negative)
    \/ \E fault \in BOOLEAN : OrderQuery(fault)
    \/ \E sendThrows \in BOOLEAN : OrderItem(sendThrows)
    \/ OrderPrune
    \/ \E u \in Shoppers : CreateOrderReminders(u)
    \/ DayPasses

SpecRun == InitRun /\ [][NextRun]_vars

\* the scheduler is started on a Friday; nothing was sent in this process
InitReport ==
    /\ users = [u \in Users |->
                  RegisteredUser("phone", IF u = "u1" THEN "c1" ELSE "c2")]
    /\ WebhookIdle
    /\ OrderIdle
    /\ PdfIdle
    /\ timerOn = [w \in Workers |-> w = "report"]
    /\ isProcessing = [w \in Workers |-> FALSE]
    /\ inFlight = [w \in Workers |-> 0]
    /\ lastDailyDate = FALSE
    /\ lastTick = NoTick
    /\ MoneyIdle
    /\ pdfReply = NoPdfReply
    /\ resetOut = NoReset
    /\ AdminIdle
    /\ now = 5
    /\ lastDebtReminderAt = [u \in Users |-> Null]
    /\ orderReminders = {}
    /\ nextReminderId = 1
    /\ runPc = IdleRun
    /\ debtLog = [u \in Users |-> <<>>]
    /\ dispatched = [i \in 1..MaxReminderId |-> 0]
    /\ ReportIdle
    /\ catalog = [p \in Products |-> ListPrice(p)]

NextReportRun ==
    \/ \E atHour \in BOOLEAN : ReportTick(atHour)
    \/ \E fault \in BOOLEAN : ReportFetch(fault)
    \/ ReportSend
    \/ DayPasses

SpecReport == InitReport /\ [][NextReportRun]_vars

\* u1 has chosen a language and not shared a phone number, or is registered;
\* u2 has shared a phone number and the creation of the counterparty failed
InitPrompt ==
    /\ \E r \in {RegisteredUser(NONE, NONE), RegisteredUser("ph1", "c1")} :
          users = [u \in Users |->
                     IF u = "u1" THEN r ELSE RegisteredUser("ph2", NONE)]
    /\ WebhookIdle
    /\ OrderIdle
    /\ PdfIdle
    /\ WorkerIdle
    /\ MoneyIdle
    /\ pdfReply = NoPdfReply
    /\ resetOut = NoReset
    /\ AdminIdle
    /\ LateIdle

\* the users do what the bot tells them: /start, the contact button of the
\* registration prompt, the main menu; the shopper may order for pickup in
\* the storefront, where a deleted counterparty is found out
NextPrompt ==
    \/ \E u \in Users : BotStart(u)
    \/ \E u \in Users : RegistrationGuard(u)
    \/ \E u \in Users, phone \in Phones, fault \in ContactFaults :
          PromptedContact(u, phone, fault)
    \/ \E c \in Customers : ErpDeleteCounterparty(c)
    \/ \E u \in Shoppers : HttpDraftOrder("h1", u, PickupBody)
    \/ HttpRemind("h1")
    \/ \E fault \in BOOLEAN : Resolve("h1", fault)
    \/ \E fault \in BOOLEAN : CreateOrder("h1", fault)
    \/ \E sendThrows \in BOOLEAN : ClearDraft("h1", sendThrows)

\* every user goes on sending /start and pressing the menu, and a user who is
\* shown the registration prompt again and again shares the contact at last
\* with the ERP answering
PromptFairness ==
    \A u \in Users :
        /\ WF_vars(BotStart(u))
        /\ WF_vars(RegistrationGuard(u))
        /\ SF_vars(\E phone \in Phones : PromptedContact(u, phone, "none"))

SpecPrompt == InitPrompt /\ [][NextPrompt]_vars /\ PromptFairness

\* every user is linked to a counterparty or to none
InitAccess ==
    /\ users \in [Users -> {RegisteredUser("phone", c) :
                               c \in Customers \cup {NONE}}]
    /\ WebhookIdle
    /\ OrderIdle
    /\ PdfIdle
    /\ WorkerIdle
    /\ MoneyIdle
    /\ pdfReply = NoPdfReply
    /\ resetOut = NoReset
    /\ AdminIdle
    /\ LateIdle

NextAccess ==
    \E caller \in Callers, href \in AgentHrefs, fault \in PdfFaults :
        DemandPdfRequest(caller, href, fault)

SpecAccess == InitAccess /\ [][NextAccess]_vars

SpecMoney == InitMoney /\ [][NextMoney]_vars


(***************************************************************************)
(* Properties of the webhook reconciler                                    *)
(***************************************************************************)
IsUserNote(m) == m.to # "admin"

UserNotes(s) == SelectSeq(s, IsUserNote)

\* a pass of the event loop was taken in this step
EventStep == whPos' = whPos + 1

IsOrderUpdate(e, c) ==
    e.type = "customerorder" /\ e.action = "UPDATE" /\ e.fetch = "ok" /\ e.agent = c

IsOrderUpdateDemands(e, c) == IsOrderUpdate(e, c) /\ e.fields = {"demands"}

IsDemandCreate(e, c) ==
    /\ e.type = "demand" /\ e.action = "CREATE"
    /\ e.fetch = "ok" /\ e.agent = c /\ e.applicable

SideEffectFields == {"demands", "shipments", "payments", "payedsum"}

\* an order UPDATE that is a business event of its own: an applicable order,
\* none of the side-effect fields among the changed fields
IsRealOrderUpdate(e, c) ==
    IsOrderUpdate(e, c) /\ e.applicable /\ e.fields \cap SideEffectFields = {}

Linked(c) == LinkedUsers(users, c) # {}

MarkerLive(c) == sinceCreate[c] # Never /\ sinceCreate[c] < DemandCreatedTtl

\* the order-update message to the customer's user was sent, or its send threw
OrderUpdateNotified(c, notes, thrown) ==
    \/ Len(notes) >= 1 /\ notes[1] = Note(FindUser(users, c), "orderUpdate")
    \/ notes = <<>> /\ thrown = "send"

\* C1: a request of exactly two events, an order UPDATE of customer c with
\* changed fields {demands} and a CREATE of an applicable shipment of c, in
\* either order, handled to the end without an exception, sends exactly one
\* message to a user: the shipment-create message to the user linked to c.
C1_OneNotificationPerShipment ==
    [][\A c \in Customers :
          ( /\ EventStep /\ whN = 2 /\ whPos = 1 /\ ~whAborted'
            /\ Linked(c)
            /\ \/ IsOrderUpdateDemands(cur, c) /\ IsDemandCreate(cur', c)
               \/ IsDemandCreate(cur, c) /\ IsOrderUpdateDemands(cur', c) )
          => UserNotes(out) \o UserNotes(out')
                = <<Note(FindUser(users, c), "demandCreate")>>]_vars

\* the order UPDATE {demands} came second, after the shipment CREATE of the
\* same customer in the same two-event request, and sent nothing
C1_Witness ==
    /\ whN = 2 /\ whPos = 2 /\ ~whAborted
    /\ IsOrderUpdateDemands(cur, "c1") /\ cur.applicable
    /\ "c1" \in batchSet /\ Linked("c1")
    /\ out = <<>>

\* C2: an UPDATE event whose changed fields are exactly {applicable} sends no
\* message to a user or an admin, whatever the entity type and whatever the
\* applicable flag of the fetched entity.
C2_VoidingUpdateSilent ==
    (cur.action = "UPDATE" /\ cur.fields = {"applicable"}) => out = <<>>

\* C3: an order UPDATE of customer c handled less than 60 seconds after a
\* shipment CREATE of c reached its CREATE branch sends nothing, in the same
\* or in a later request; once the 60 seconds have passed, an order UPDATE of
\* c that nothing else suppresses is notified again.
C3_SuppressionWindow ==
    [][\A c \in Customers :
          (EventStep /\ IsOrderUpdate(cur', c))
          => /\ MarkerLive(c) => out' = <<>>
             /\ ( /\ sinceCreate[c] >= DemandCreatedTtl
                  /\ c \notin batchSet
                  /\ IsRealOrderUpdate(cur', c)
                  /\ Linked(c) )
                => OrderUpdateNotified(c, out', curThrow')]_vars

\* a status update of c1 was suppressed in a later request, 30 seconds after
\* the shipment CREATE
C3_Witness ==
    /\ IsRealOrderUpdate(cur, "c1") /\ Linked("c1")
    /\ "c1" \notin batchSet
    /\ sinceCreate["c1"] > 0 /\ sinceCreate["c1"] < DemandCreatedTtl
    /\ out = <<>> /\ curThrow = NONE

\* C4 as claimed: every order UPDATE that is a business event of its own, of
\* a linked customer, is notified to that customer.
C4_NeverLost ==
    \A c \in Customers :
        (IsRealOrderUpdate(cur, c) /\ Linked(c))
        => OrderUpdateNotified(c, out, curThrow)

\* C4 amended: such an order UPDATE is notified unless a shipment CREATE of
\* the same customer was handled earlier in the same request or less than 60
\* seconds before; in those two cases it is suppressed.
C4_LostOnlyInWindow ==
    [][\A c \in Customers :
          (EventStep /\ IsRealOrderUpdate(cur', c) /\ Linked(c))
          => ( OrderUpdateNotified(c, out', curThrow')
                 <=> ~(c \in batchSet \/ MarkerLive(c)) )]_vars

\* a status update of c1 was suppressed because the shipment CREATE of c1 came
\* earlier in the same request
C4_Witness ==
    /\ IsRealOrderUpdate(cur, "c1") /\ Linked("c1")
    /\ "c1" \in batchSet
    /\ out = <<>> /\ curThrow = NONE

\* C5: a failing event does not end the handling of the request: the handler
\* ends only when every event of the request was taken up.
C5_FaultIsolated == HandlerEnded => whPos = whN

(***************************************************************************)
(* Properties of the draft order and its submission                        *)
(***************************************************************************)
\* the ERP order carries a destination: an address text or a location
HasDestination(o) == Truthy(o.addressText) \/ o.location

\* C6: an ERP order with delivery method "delivery" is created only from a
\* draft that has an address text or coordinates.
C6_DeliveryHasDestination ==
    lastOrder.deliveryMethod = "delivery" => HasDestination(lastOrder)

\* C7: createCustomerOrder is invoked at most once per draft by the
\* order:confirm handlers, however they interleave.
C7_AtMostOneOrderPerDraft == \A i \in DraftIds : ordersOf["bot"][i] <= 1

\* C8: after any sequence of draft-order upserts the one draft of a user
\* holds exactly the items of the last upsert.
C8_ItemsOfLastUpsert ==
    \A u \in Users : drafts[u].id # 0 => drafts[u].items = lastUpsert[u]

\* the list of two products was upserted twice in a row and is the draft's
C8_Witness ==
    /\ ended.again
    /\ drafts["u1"].id # 0
    /\ Len(drafts["u1"].items) = 2

\* the step in which the createCustomerOrder of handler h throws: h leaves
\* the call and no order is created
CreateThrows(h) ==
    slots[h].pc = "create" /\ slots'[h].pc # "create" /\ lastOrder' = NoOrder

\* C9: when createCustomerOrder throws, the step leaves every draft with its
\* items as it is and the handler ends: it never reaches the deletion.
C9_DraftKeptOnCreateFailure ==
    [][\A h \in Handlers :
          CreateThrows(h) => drafts' = drafts /\ slots'[h].pc = "idle"]_vars

\* a confirm handler ended on a failed creation and the draft is there
C9_Witness ==
    /\ ended.found = "createFailed"
    /\ ended.kind = "bot"
    /\ drafts["u1"].id # 0
    /\ drafts["u1"].items # <<>>

Unregistered(u) ==
    /\ users[u].phoneNumber = NONE
    /\ users[u].moskladCounterpartyId = NONE
    /\ users[u].defaultAddress = NONE

\* C10: when the resolution finds the counterparty deleted, the handler
\* answers with the re-registration error and the user's phone number,
\* counterparty link and default address are null, on both entry points.
C10_DeletedResetsRegistration ==
    ended.found = "deleted" =>
        ended.reply = "counterpartyDeleted" /\ Unregistered(ended.user)

(***************************************************************************)
(* Properties of the registration                                          *)
(***************************************************************************)
\* C11: a user whose counterparty was found deleted gets no counterparty
\* again unless they share their contact.
C11_NoSilentRelink ==
    \A u \in seenDeleted : users[u].moskladCounterpartyId = NONE

\* C12: at most one user holds a given counterparty id.
C12_OneUserPerCounterparty ==
    \A a, b \in Users :
        a # b /\ users[a].moskladCounterpartyId # NONE
            => users[a].moskladCounterpartyId # users[b].moskladCounterpartyId

\* C13: /start of a user without a counterparty id is answered with the
\* registration prompt, never with "already registered".
C13_PhoneOnlyNotRegistered ==
    ended.kind = "start" /\ users[ended.user].moskladCounterpartyId = NONE
        => ended.reply = "registerPrompt"

(***************************************************************************)
(* Properties of the periodic workers                                      *)
(***************************************************************************)
\* C21: each worker has at most one scheduled run in flight, whatever the
\* order of timer ticks, run ends, stop and start calls.
C21_OneRunInFlight == \A w \in Workers : inFlight[w] <= 1

Unregistered_In(us, u) ==
    /\ us[u].phoneNumber = NONE
    /\ us[u].moskladCounterpartyId = NONE
    /\ us[u].defaultAddress = NONE

\* C22: a price in minor units, divided by 100 for the call and multiplied
\* by 100 and rounded for the request body, is the same price again.
C22_MoneyRoundTrip == minorOut # NotSent => minorOut = minorIn

\* a price whose quotient by 100 is not a double, sent
C22_Witness ==
    /\ minorOut # NotSent
    /\ minorIn % 100 # 0
    /\ DivideBy100(minorIn).err # 0
    /\ minorOut = minorIn

\* the shipment of the request is of the counterparty the caller is linked to
C23_Owns ==
    /\ pdfReply.caller \in Users
    /\ pdfReply.href.entity = "counterparty"
    /\ pdfReply.href.id \in Customers
    /\ pdfReply.href.id = users[pdfReply.caller].moskladCounterpartyId

\* C23: a document is sent only to a caller who owns the shipment; a fetched
\* shipment of another counterparty, without a counterparty, or asked for by
\* a caller with no counterparty is answered 403 with no document.
C23_OnlyOwnShipment ==
    /\ pdfReply.sentTo # NONE => C23_Owns /\ pdfReply.sentTo = pdfReply.caller
    /\ pdfReply.status = 200 => pdfReply.sentTo # NONE
    /\ pdfReply.caller \in Users /\ pdfReply.status # 500 /\ ~C23_Owns
          => pdfReply.status = 403 /\ pdfReply.sentTo = NONE

\* a caller without a counterparty asked for a shipment and got 403
C23_Witness ==
    /\ pdfReply.status = 403
    /\ pdfReply.caller \in Users
    /\ users[pdfReply.caller].moskladCounterpartyId = NONE
    /\ ExtractIdFromHref(pdfReply.href) # NONE

\* C24: the webhook DELETE event and the bot's COUNTERPARTY_DELETED handling
\* leave the same user rows: link, phone number, saved address and pending
\* state of the user null, everything else as it was.
C24_SameReset ==
    resetOut.done =>
        /\ resetOut.webhook = resetOut.bot
        /\ Unregistered_In(resetOut.bot, resetOut.user)
        /\ resetOut.bot[resetOut.user].pendingState = NONE
        /\ resetOut.bot[resetOut.user].language = users[resetOut.user].language
        /\ \A x \in Users \ {resetOut.user} : resetOut.bot[x] = users[x]

\* the user had a saved address and a pending flow
C24_Witness ==
    /\ resetOut.done
    /\ users[resetOut.user].defaultAddress # NONE
    /\ users[resetOut.user].pendingState # NONE
    /\ resetOut.webhook[resetOut.user].defaultAddress = NONE

\* C25: toggles leave the persisted preferences as they are; they change only
\* in a save by an admin, after which the persisted set is the staged set the
\* save carried; the panel of an admin without a saved row shows all four off.
C25_TwoPhase ==
    [][/\ adminSettings' # adminSettings =>
            panel'.op = "saved" /\ isAdmin(panel'.by)
       /\ panel'.op = "saved" =>
            /\ BaseStates(adminSettings'[panel'.by]) = panel'.states
            /\ \A st \in AdminPanelStates :
                  panel'.code = encodeAdminStates(st) => panel'.states = st
            /\ \A u \in Users \ {panel'.by} :
                  adminSettings'[u] = adminSettings[u]
       /\ (panel'.op = "opened" /\ ~adminSettings[panel'.by].saved) =>
            panel'.states = AllOff]_vars

\* a save of a staged set with payments only, next to the saved row of u2
C25_Witness ==
    /\ panel.op = "saved"
    /\ panel.states = [AllOff EXCEPT !["payment"] = TRUE]
    /\ panel.code = encodeAdminStates(panel.states)
    /\ adminSettings["u2"].saved

\* C26: a broadcast of type T reaches an admin only if the admin is a local
\* user with saved settings whose preference for T is on when the broadcast
\* reads it.
C26_OptedInOnly ==
    [][\A a \in bcast'.sent \ bcast.sent :
          /\ HasUserRow(a)
          /\ adminSettings[a].saved
          /\ BaseStates(adminSettings[a])[bcast'.type]]_vars

\* a payment broadcast went through the whole list and reached u1 but not
\* u2, whose saved settings have new orders only
C26_Witness ==
    /\ bcast.pos = 0
    /\ bcast.type = "payment"
    /\ bcast.sent = {"u1"}
    /\ adminSettings["u2"].saved
    /\ adminSettings["u2"].notifyNewOrder

\* the draft is in S3: delivery chosen, no address text, no coordinates
C27_AwaitingAddress(d) ==
    /\ d.id # 0
    /\ d.deliveryMethod = "delivery"
    /\ d.addressText = NONE
    /\ d.locationLat = NONE /\ d.locationLng = NONE

\* C27: a draft-order request of a registered user with method delivery and
\* no coordinates is answered { draftId, awaitingLocation: true } and leaves
\* the stored draft in S3.
C27_FallsBackToS3 ==
    (/\ ended.kind = "http"
     /\ ended.reply # NONE
     /\ ended.draft.deliveryMethod = "delivery"
     /\ ended.draft.locationLat = NONE /\ ended.draft.locationLng = NONE)
        => /\ ended.reply = "awaitingLocation"
           /\ C27_AwaitingAddress(drafts[ended.user])

\* the texts that are a slash command or a label of the user's main menu
C28_Escapes == {"/help", "Buyurtmalar", "Do'konni ochish"}

\* C28: while the draft awaits an address, a slash command or a main-menu
\* label deletes the draft and is not stored; any other text is stored as
\* the address (the label of the saved-address button as the saved address
\* it stands for) and is answered with the confirmation summary.
C28_EscapeOrAddress ==
    (ended.kind = "text" /\ C27_AwaitingAddress(ended.draft)) =>
        LET u == ended.user
        IN  IF ended.text \in C28_Escapes
            THEN drafts[u] = NoDraft /\ ended.reply # "confirmation"
            ELSE /\ drafts[u].id = ended.draft.id
                 /\ drafts[u].items = ended.draft.items
                 /\ drafts[u].addressText =
                       IF /\ users[u].defaultAddress # NONE
                          /\ ended.text = formatAddress(users[u].defaultAddress)
                       THEN users[u].defaultAddress
                       ELSE ended.text
                 /\ ended.reply = "confirmation"

\* an address was typed into a draft the storefront had left in S3
C28_Witness ==
    /\ ended.kind = "text"
    /\ C27_AwaitingAddress(ended.draft)
    /\ ended.text = "Navoi 5"
    /\ drafts[ended.user].addressText = "Navoi 5"

\* C29: a cancel deletes the draft with its items and calls the ERP for
\* nothing; a confirm that finds no draft answers "cart empty" and creates
\* no order.
C29_CancelIsTerminal ==
    [][/\ (ended'.kind = "bot" /\ ended'.reply = "orderCancelled") =>
            /\ drafts'[ended'.user] = NoDraft
            /\ lastUpsert'[ended'.user] = NoUpsert
            /\ erpCp' = erpCp /\ ordersOf' = ordersOf /\ lastOrder' = NoOrder
       /\ \A h \in Handlers :
            (/\ slots[h].pc = "read" /\ slots'[h].pc # "read"
             /\ drafts[slots[h].user] = NoDraft) =>
                /\ ended'.reply = "cartEmpty"
                /\ slots'[h].pc = "idle"
                /\ ordersOf' = ordersOf /\ lastOrder' = NoOrder]_vars

\* a draft with an address was cancelled
C29_Witness ==
    /\ ended.kind = "bot"
    /\ ended.reply = "orderCancelled"
    /\ ended.draft.id # 0
    /\ ended.draft.addressText # NONE
    /\ drafts[ended.user] = NoDraft

\* one unsent reminder per configured day offset
C30_FreshBatch == [d \in ReminderDays |-> 1]

\* C30: a handler that has submitted an order to the ERP leaves a fresh
\* batch of reminders for the user; a handler that ends with the draft only
\* saved, deferred or cancelled leaves the user's reminders as they were.
C30_RemindersAtSubmission ==
    [][/\ ended'.created # <<>> =>
            reminders'[ended'.user] = C30_FreshBatch
       /\ (/\ ended'.kind \in {"http", "bot"}
           /\ ended'.reply \in {"draftId", "awaitingLocation", "orderCancelled"}
           /\ ended'.created = <<>>) =>
            reminders'[ended'.user] = reminders[ended'.user]]_vars

(***************************************************************************)
(* Properties of a run of the reminder worker                              *)
(***************************************************************************)
Range(q) == {q[i] : i \in DOMAIN q}

\* the run is inside one of its two loops or has left the second one
InPass == runPc.pc \in {"debt", "orders", "prune"}

\* C31: a failure for one item of a pass does not stop the pass: every user
\* and every reminder selected by the pass is handled or still to be
\* handled, whatever failed before; the processing flag is released when the
\* run is over, and the timer stays set.
C31_ItemFailureIsContained ==
    /\ InPass => runPc.seen \cup Range(runPc.todo) = runPc.batch
    /\ runPc.pc = "prune" => runPc.seen = runPc.batch
    /\ runPc.pc = "idle" <=> ~isProcessing["reminder"]
    /\ timerOn["reminder"]

\* the reminder of u1 failed and u2 got a debt reminder in the same pass
C31_Witness ==
    /\ runPc.pc = "orderQuery"
    /\ "u1" \in runPc.failed
    /\ debtLog["u2"] = <<runPc.at>>

\* C37: when the debt pass fails as a whole while order reminders are due,
\* the run goes on to the order pass.
C37_OrderPassIndependent ==
    [][( /\ runPc.pc = "debtQuery"
         /\ runPc' # runPc
         /\ Pending(orderReminders, runPc.at) # {} )
        => runPc'.pc \in {"debt", "orderQuery"}]_vars

\* the row of reminder id, if it was not deleted
RowsOf(id) == {r \in orderReminders : r.id = id}

WeekOf(d) == d \div 7

NoRepeat(q) == \A i, j \in DOMAIN q : i < j => q[i] # q[j]

\* C39: the daily report goes out at most once per date, the weekly report
\* at most once per Sunday and on no other weekday; a date is recorded only
\* for a report that was sent, and after a run that threw, the report of the
\* day is still due at the next tick.
C39_OncePerDate ==
    /\ NoRepeat(reportLog.daily)
    /\ NoRepeat(reportLog.weekly)
    /\ \A d \in Range(reportLog.weekly) : IsSunday(d)
    /\ lastDailyStr # Null => lastDailyStr \in Range(reportLog.daily)
    /\ lastWeeklyDate # Null => lastWeeklyDate \in Range(reportLog.weekly)
    /\ ( /\ rptPc.pc = "idle"
         /\ reportLog.failed = <<"daily", now>>
         /\ now \notin Range(reportLog.daily) )
        => NextReport(lastDailyStr, lastWeeklyDate, now, FALSE) = "daily"

\* on Sunday the weekly report failed after the daily one was sent, and a
\* later run of the day sent the weekly report only
C39_Witness ==
    /\ reportLog.failed = <<"weekly", 7>>
    /\ reportLog.weekly = <<7>>
    /\ reportLog.daily = <<5, 6, 7>>
    /\ rptPc.pc = "idle"
    /\ now = 7

(***************************************************************************)
(* Properties of the prices of an order                                    *)
(***************************************************************************)
\* C32: the positions of an order the bot's confirm has created carry the
\* prices saved with the draft (lastUpsert, kept until the draft is deleted),
\* whatever the catalog says by then; and no step that is not a save of the
\* draft changes the items of a draft.
C32_PriceSnapshot ==
    [][/\ ( /\ ended'.kind = "bot" /\ ended'.created # <<>>
            /\ lastUpsert[ended'.user] # NoUpsert ) =>
            /\ Len(ended'.created[1]) = Len(lastUpsert[ended'.user])
            /\ \A i \in DOMAIN ended'.created[1] :
                  /\ ended'.created[1][i].id
                        = lastUpsert[ended'.user][i].productId
                  /\ ended'.created[1][i].price
                        = lastUpsert[ended'.user][i].price
       /\ \A u \in Users :
             ( /\ drafts[u].id # 0
               /\ drafts'[u].id = drafts[u].id
               /\ ended'.kind # "http" )
             => drafts'[u].items = drafts[u].items]_vars

\* a confirm has created an order at the saved price after the catalog
\* price of the product went up
C32_Witness ==
    /\ ended.kind = "bot"
    /\ ended.created # <<>>
    /\ ended.created[1][1].price = ListPrice("p1")
    /\ catalog[ended.created[1][1].id] # ListPrice("p1")

(***************************************************************************)
(* Properties of the saved default address                                 *)
(***************************************************************************)
\* `${lat},${lng}`
C33_GpsString(lat, lng) ==
    IF lat = "41.3" /\ lng = "69.2" THEN "41.3,69.2" ELSE NONE

\* the handler has created its order and answered with it
C33_Submitted(e) ==
    /\ e.kind \in {"bot", "http"}
    /\ e.found = "ok"
    /\ e.created # <<>>

\* C33: after a successful delivery submission with coordinates, by the bot's
\* confirm or by POST /api/draft-order, the default address of the user is
\* the coordinates as "lat,lng"; a pickup submission leaves it unchanged.
C33_DefaultAddressSaved ==
    [][C33_Submitted(ended') =>
         LET d == ended'.draft
             u == ended'.user
         IN  /\ ( /\ d.deliveryMethod = "delivery"
                  /\ Truthy(d.locationLat) /\ Truthy(d.locationLng) )
                => users'[u].defaultAddress
                      = C33_GpsString(d.locationLat, d.locationLng)
             /\ d.deliveryMethod = "pickup"
                => users'[u].defaultAddress = users[u].defaultAddress]_vars

(***************************************************************************)
(* Properties of the positions of an order                                 *)
(***************************************************************************)
\* no item of the list names a product of the ERP
C35_NoKnownProduct(items) ==
    \A i \in 1..Len(items) : items[i].id \notin Products

\* the 4xx answers of POST /api/draft-order
C35_Rejections == {"cartEmpty", "noValidItems"}

\* C35: no order is posted to the ERP without positions; a confirm that
\* finds no draft or a draft without items answers "cart empty" and posts
\* nothing; a request to POST /api/draft-order whose list is empty or names
\* no known product is answered with a 4xx, posts nothing and leaves the
\* drafts as they are.
C35_NoEmptyOrder ==
    [][/\ lastOrder' # NoOrder => lastOrder'.positions # <<>>
       /\ \A h \in Handlers :
             ( /\ BotReadDraft(h)
               /\ drafts[slots[h].user].items = <<>> )
             => /\ ended'.reply = "cartEmpty"
                /\ lastOrder' = NoOrder
                /\ ordersOf' = ordersOf
       /\ \A h \in Handlers, u \in Shoppers, body \in Bodies :
             ( /\ C35_NoKnownProduct(body.items)
               /\ HttpDraftOrder(h, u, body) )
             => /\ ended'.reply \in C35_Rejections
                /\ lastOrder' = NoOrder
                /\ ordersOf' = ordersOf
                /\ drafts' = drafts]_vars

(***************************************************************************)
(* Properties of the way out of the registration guard                     *)
(***************************************************************************)
\* the guard blocks the user, who has a phone number
C36_Blocked(u) ==
    Truthy(users[u].phoneNumber) /\ users[u].moskladCounterpartyId = NONE

\* C36: a user with a phone number and no counterparty who goes on following
\* the prompts of the bot is linked to a counterparty in the end.
C36_BlockedGetsOut ==
    \A u \in Users :
        C36_Blocked(u) ~> (users[u].moskladCounterpartyId # NONE)

(***************************************************************************)
(* Properties of the submission through POST /api/draft-order              *)
(***************************************************************************)
\* an HTTP request has answered after saving the draft
HttpAnswered ==
    ended.kind = "http" /\ ended.reply \in {"orderName", "draftId", "awaitingLocation"}

\* C18: a pickup request of a registered user whose ERP and Telegram calls
\* succeed ends with exactly one order, one position per valid item with
\* the item's quantity and the price snapshotted in the draft, no draft left
\* for the user and one pending reminder per configured day offset.
C18_PickupSubmitted ==
    /\ ended.kind = "http"
    /\ ended.found = "ok"
    /\ ended.draft.deliveryMethod = "pickup"
    => /\ Len(ended.created) = 1
       /\ ordersOf["http"][ended.draft.id] = 1
       /\ Len(ended.created[1]) = Len(ended.draft.items)
       /\ \A i \in 1..Len(ended.draft.items) :
             /\ ended.created[1][i].id = ended.draft.items[i].productId
             /\ ended.created[1][i].quantity = ended.draft.items[i].quantity
             /\ ended.created[1][i].price = Price(ended.draft.items[i].productId)
       /\ drafts[ended.user] = NoDraft
       /\ \A d \in ReminderDays : reminders[ended.user][d] = 1

\* the pickup request with two valid items has ended with its order
C18_Witness ==
    /\ ended.kind = "http"
    /\ ended.found = "ok"
    /\ ended.draft.deliveryMethod = "pickup"
    /\ users[ended.user].moskladCounterpartyId # NONE
    /\ Len(ended.draft.items) = 2
    /\ Len(ended.created[1]) = 2

\* C19: the answer is { orderName } exactly when the request created an
\* order, and when it is { draftId }, with or without awaitingLocation, the
\* request created no order and the draft with that id exists.
C19_ResponseReflects ==
    HttpAnswered =>
        /\ ended.reply = "orderName" <=> ended.created # <<>>
        /\ ended.reply # "orderName" =>
              /\ ended.created = <<>>
              /\ drafts[ended.user].id = ended.draft.id

RECURSIVE C20_Sum(_, _)
C20_Sum(f, S) ==
    IF S = {} THEN 0
    ELSE LET d == CHOOSE x \in S : TRUE IN f[d] + C20_Sum(f, S \ {d})

\* C20: a user never has more unsent reminders than there are configured
\* day offsets, however the createOrderReminders calls interleave.
C20_LiveReminders ==
    \A u \in Users :
        C20_Sum(reminders[u], ReminderDays) <= Cardinality(ReminderDays)

(***************************************************************************)
(* Properties of buildDemandPdfData                                        *)
(***************************************************************************)
Reconciled == pdfOut.built /\ pdfIn.fetch = "ok"

\* C14: for the order of 10 A at 100.00 and 5 B at 200.00 shipped as 4 A and
\* then 3 A with 5 B, the receipt shows A remaining 3 worth 300.00, B
\* remaining 0 worth 0, and left to pay the order total minus 1700.00.
C14_ExampleRemaining ==
    pdfOut.built /\ pdfIn \in ExampleInputs =>
        /\ Len(pdfOut.positions) = 2
        /\ pdfOut.positions[1].assortmentId = "A"
        /\ pdfOut.positions[1].remainingQty = 3
        /\ pdfOut.positions[1].remainingSum = 30000
        /\ pdfOut.positions[2].assortmentId = "B"
        /\ pdfOut.positions[2].remainingQty = 0
        /\ pdfOut.positions[2].remainingSum = 0
        /\ pdfOut.leftToPay =
              (IF pdfIn.sum = Null THEN 200000 ELSE pdfIn.sum) - 170000

C14_Witness ==
    pdfOut.built /\ pdfIn \in ExampleInputs /\ pdfOut.leftToPay = 80000

\* a shipment line is of the product of an order line when the ids are
\* equal or, an id missing, when the normalized names are equal
C15_SameProduct(line, s) ==
    IF s.assortmentId # NONE /\ line.assortmentId # NONE
    THEN s.assortmentId = line.assortmentId
    ELSE NormalizeName(s.name) = NormalizeName(line.name)

C15_Shipped(line) ==
    LET ps == Shipped(pdfIn)
        f[i \in 0..Len(ps)] ==
            IF i = 0 THEN 0
            ELSE f[i - 1] + (IF C15_SameProduct(line, ps[i]) THEN ps[i].quantity
                             ELSE 0)
    IN  f[Len(ps)]

C15_Ordered(line) ==
    IF line.assortmentId # NONE
    THEN QtyById(pdfIn.orderPositions, line.assortmentId)
    ELSE QtyByName(pdfIn.orderPositions, NormalizeName(line.name))

\* C15: the remaining quantity of every order line is max(0, ordered -
\* shipped), shipped being the sum over all shipments of the lines of the
\* same product, found by id and, where a line has no id, by normalized
\* name.
C15_ShippedToDate ==
    Reconciled =>
        \A i \in 1..Len(pdfIn.orderPositions) :
            pdfOut.positions[i].remainingQty =
                Max(0, C15_Ordered(pdfIn.orderPositions[i])
                       - C15_Shipped(pdfIn.orderPositions[i]))

C16_LinesTotal ==
    LET ps == pdfIn.orderPositions
        f[i \in 0..Len(ps)] ==
            IF i = 0 THEN 0
            ELSE f[i - 1] + (IF ps[i].price = Null THEN 0
                             ELSE ps[i].price * ps[i].quantity)
    IN  f[Len(ps)]

C16_Total == IF pdfIn.sum > 0 THEN pdfIn.sum ELSE C16_LinesTotal

C16_ShippedValue == ShippedTotal(pdfIn.orderPositions, Shipped(pdfIn))

\* C16: the order total is the stated sum when positive and the sum of
\* price x quantity of the order lines otherwise; left to pay is
\* max(0, total - shipped value), never negative, and null only when
\* neither total is available.
C16_LeftToPay ==
    /\ Reconciled =>
          /\ C16_Total > 0 =>
                pdfOut.leftToPay = Max(0, C16_Total - C16_ShippedValue)
          /\ C16_Total = 0 <=> pdfOut.leftToPay = Null
    /\ pdfOut.leftToPay = Null \/ pdfOut.leftToPay >= 0

\* more was shipped than the order is worth
C16_Witness ==
    /\ Reconciled
    /\ pdfIn.sum = 0
    /\ C16_LinesTotal > 0
    /\ C16_ShippedValue > C16_LinesTotal
    /\ pdfOut.leftToPay = 0

C17_Unmatched(s) ==
    \A i \in 1..Len(pdfIn.orderPositions) :
        /\ ~(s.assortmentId # NONE
             /\ s.assortmentId = pdfIn.orderPositions[i].assortmentId)
        /\ NormalizeName(s.name) # NormalizeName(pdfIn.orderPositions[i].name)

C17_UnmatchedIn(lines) ==
    {i \in 1..Len(lines) : C17_Unmatched(lines[i])}

\* C17: the receipt has one line per order line, each with a numeric
\* remaining quantity, followed by every shipment line that matches no
\* order line by id or normalized name, in order, each with remaining
\* quantity and remaining sum null.
C17_UnmatchedKept ==
    Reconciled =>
        LET n == Len(pdfIn.orderPositions)
            rest == SubSeq(pdfOut.positions, n + 1, Len(pdfOut.positions))
        IN  /\ \A i \in 1..n : pdfOut.positions[i].remainingQty >= 0
            /\ Len(rest) = Cardinality(C17_UnmatchedIn(pdfIn.demandPositions))
            /\ \A j \in 1..Len(rest) :
                  /\ rest[j].remainingQty = Null
                  /\ rest[j].remainingSum = Null
                  /\ \E k \in C17_UnmatchedIn(pdfIn.demandPositions) :
                        /\ Cardinality({m \in C17_UnmatchedIn(pdfIn.demandPositions) : m <= k}) = j
                        /\ rest[j].assortmentId = pdfIn.demandPositions[k].assortmentId
                        /\ rest[j].name = pdfIn.demandPositions[k].name
                        /\ rest[j].quantity = pdfIn.demandPositions[k].quantity

C17_Witness ==
    /\ Reconciled
    /\ pdfIn.orderPositions # <<>>
    /\ Len(pdfOut.positions) = Len(pdfIn.orderPositions) + 2

====
